---- MODULE Spec2Model ----
(***************************************************************************)
(* Vehicle registration dashboard: the growth engine                       *)
(* (src/data_processing.py, VehicleDataProcessor) and the SQLite store     *)
(* (src/database.py, VehicleDatabase).                                     *)
(*                                                                         *)
(* A ledger is a sequence of registration rows.  Growth values are kept    *)
(* in hundredths of a percent (50.0 % is 5000), so that rounding to two    *)
(* decimals is integer arithmetic on the exact quotient.  Within the       *)
(* bounds below every exact tie (x.xx5) has a dyadic quotient, which the   *)
(* float arithmetic of pandas and of SQLite represents exactly, and every  *)
(* other quotient is far from a tie compared with the float error, so the  *)
(* exact quotient rounds as the floats do.                                 *)
(***************************************************************************)
EXTENDS Integers, Sequences, FiniteSets, Bags, TLC

VARIABLES
    csv,                    \* rows of data/vahan_vehicle_data.csv
    df,                     \* df[b]: VehicleDataProcessor.df of the processor with backend b
    processed_df,           \* processed_df[b]: VehicleDataProcessor.processed_df
    yoy_data,               \* yoy_data[b]: the YoY table computed by the last run of b
    qoq_data,               \* qoq_data[b]: the QoQ table computed by the last run of b
    vehicle_registrations,  \* table vehicle_registrations (committed rows)
    growth_metrics,         \* table growth_metrics (committed rows, a bag)
    insert_call,            \* the last insert_registration_data call: argument, fault, result
    runs,                   \* number of runs so far
    last,                   \* the last two process_all_data runs, the latest first
    conn,                   \* the writer connection's open transaction
    seen,                   \* what the reader connection read last
    reply                   \* the last call a client made, and what it returned

vars == <<csv, df, processed_df, yoy_data, qoq_data, vehicle_registrations,
          growth_metrics, insert_call, runs, last, conn, seen, reply>>

----------------------------------------------------------------------------
(* Bounds and domains *)

MaxRows == 3

MaxRuns == 2

Backends == {"memory", "database"}

Years == 2023..2024

Quarters == 1..4

(* registrations of the series under study: a zero, and a pair whose growth *)
(* (3.125 %) is an exact tie at two decimals; the other series has one      *)
(* value, in the first year                                                 *)
RegValues == {0, 32, 33}

OtherValues == {32}

FirstYear == {y \in Years : \A z \in Years : y <= z}

Rec(m, c, y, q, n) ==
    [manufacturer |-> m, vehicle_category |-> c, year |-> y, quarter |-> q,
     registrations |-> n]

Records ==
    {Rec("Acme", "2W", y, q, n) : y \in Years, q \in Quarters, n \in RegValues}
    \cup {Rec("Bolt", "2W", y, q, n) : y \in FirstYear, q \in Quarters, n \in OtherValues}

----------------------------------------------------------------------------
(* Nullable column values: a number, NULL/NaN, +infinity, or no such column *)

Null == [k |-> "null", v |-> 0]

Inf == [k |-> "inf", v |-> 0]

Absent == [k |-> "absent", v |-> 0]

Num(x) == [k |-> "num", v |-> x]

(* A data frame held by the processor: None, or a sequence of rows *)
None == [none |-> TRUE, rows |-> <<>>]

Frame(s) == [none |-> FALSE, rows |-> s]

Key(r) == <<r.manufacturer, r.vehicle_category, r.year, r.quarter>>

SameSeries(a, b) ==
    a.manufacturer = b.manufacturer /\ a.vehicle_category = b.vehicle_category

----------------------------------------------------------------------------
(* Rounding of n/d (d > 0) to an integer *)

(* numpy's round (Series.round): rint of the scaled value, ties to even *)
np_round(n, d) ==
    LET q == n \div d
        r == n % d
    IN  IF 2 * r < d THEN q
        ELSE IF 2 * r > d THEN q + 1
        ELSE IF q % 2 = 0 THEN q ELSE q + 1

(* SQLite's ROUND(x, 2): ties away from zero *)
sql_round(n, d) ==
    LET q == n \div d
        r == n % d
    IN  IF 2 * r < d THEN q
        ELSE IF 2 * r > d THEN q + 1
        ELSE IF n >= 0 THEN q + 1 ELSE q

(* ((registrations - registrations_prev) / registrations_prev * 100).round(2) *)
(* on float columns: x/0 is inf for x > 0 and NaN for x = 0                   *)
pandas_growth(curr, prev) ==
    IF prev = 0
    THEN IF curr = 0 THEN Null ELSE Inf
    ELSE Num(np_round((curr - prev) * 10000, prev))

(* CASE WHEN previous.registrations > 0 THEN ROUND(... * 100.0 / ..., 2) ELSE NULL *)
sql_growth(curr, prev) ==
    IF prev > 0
    THEN Num(sql_round((curr - prev) * 10000, prev))
    ELSE Null

----------------------------------------------------------------------------
(* Aggregation *)

RECURSIVE SumWhere(_, _)
SumWhere(t, key) ==
    IF t = <<>> THEN 0
    ELSE (IF Key(Head(t)) = key THEN Head(t).registrations ELSE 0)
         + SumWhere(Tail(t), key)

Point(key, n) == Rec(key[1], key[2], key[3], key[4], n)

(* df.groupby([manufacturer, vehicle_category, year, quarter])['registrations'].sum() *)
grouped(t) == {Point(Key(t[i]), SumWhere(t, Key(t[i]))) : i \in DOMAIN t}

(* mutant: the bare column instead of SUM(registrations): one row of the group *)
yearly_data_bare(t) ==
    {Point(Key(t[i]), t[i].registrations) :
        i \in {j \in DOMAIN t : \A k \in DOMAIN t : Key(t[k]) = Key(t[j]) => j <= k}}

(* SELECT ..., SUM(registrations) ... GROUP BY manufacturer, vehicle_category, year, quarter *)
yearly_data(t) == {Point(Key(t[i]), SumWhere(t, Key(t[i]))) : i \in DOMAIN t}

quarterly_data(t) == {Point(Key(t[i]), SumWhere(t, Key(t[i]))) : i \in DOMAIN t}

----------------------------------------------------------------------------
(* Tables returned by the growth computations: None, or a set of rows *)

NoneTable == [none |-> TRUE, rows |-> {}]

Table(S) == [none |-> FALSE, rows |-> S]

MemRow(p, g) ==
    [manufacturer |-> p.manufacturer, vehicle_category |-> p.vehicle_category,
     year |-> p.year, quarter |-> p.quarter, registrations |-> p.registrations,
     growth |-> g]

SqlRow(p, prev, g) ==
    [manufacturer |-> p.manufacturer, vehicle_category |-> p.vehicle_category,
     year |-> p.year, quarter |-> p.quarter, registrations |-> p.registrations,
     prev_registrations |-> prev, growth |-> g]

(* how='left' merge of the points with themselves, given the pairs that   *)
(* agree on the merge keys: one row per pair, and one row with NaN for a   *)
(* point in no pair                                                        *)
left_merge(g, pairs) ==
    {MemRow(pr[1], pandas_growth(pr[1].registrations, pr[2].registrations)) :
        pr \in pairs}
    \cup {MemRow(p, Null) : p \in {c \in g : \A pr \in pairs : pr[1] # c}}

(* merge on [manufacturer, vehicle_category, prev_year, quarter] = *)
(*          [manufacturer, vehicle_category, year, quarter]        *)
yoy_merge_on(p, x) ==
    SameSeries(p, x) /\ x.year = p.year - 1 /\ x.quarter = p.quarter

(* prev_quarter = quarter - 1, prev_year_adj = year; for quarter 1: 4 and year - 1 *)
prev_quarter(p) == IF p.quarter = 1 THEN 4 ELSE p.quarter - 1

(* mutant: the year of quarter 1 is not adjusted *)
prev_year_adj_same(p) == p.year

prev_year_adj(p) == IF p.quarter = 1 THEN p.year - 1 ELSE p.year

qoq_merge_on(p, x) ==
    SameSeries(p, x) /\ x.year = prev_year_adj(p) /\ x.quarter = prev_quarter(p)

(* mutant: how='inner', which drops the points without a predecessor *)
calculate_yoy_growth_inner(d) ==
    IF d.none THEN NoneTable
    ELSE LET g == grouped(d.rows)
             pairs == {pr \in g \X g : yoy_merge_on(pr[1], pr[2])}
         IN  Table(left_merge({pr[1] : pr \in pairs}, pairs))

calculate_yoy_growth(d) ==
    IF d.none THEN NoneTable
    ELSE LET g == grouped(d.rows)
         IN  Table(left_merge(g, {pr \in g \X g : yoy_merge_on(pr[1], pr[2])}))

calculate_qoq_growth(d) ==
    IF d.none THEN NoneTable
    ELSE LET g == grouped(d.rows)
         IN  Table(left_merge(g, {pr \in g \X g : qoq_merge_on(pr[1], pr[2])}))

(* FROM data current LEFT JOIN data previous ON ..., given the pairs that *)
(* satisfy the ON condition; then WHERE growth IS NOT NULL                *)
left_join(g, pairs) ==
    LET calculations ==
            {SqlRow(pr[1], Num(pr[2].registrations),
                    sql_growth(pr[1].registrations, pr[2].registrations)) :
                pr \in pairs}
            \cup {SqlRow(c, Null, Null) :
                    c \in {c \in g : \A pr \in pairs : pr[1] # c}}
    IN  {r \in calculations : r.growth # Null}

yoy_join_on(current, previous) ==
    /\ current.manufacturer = previous.manufacturer
    /\ current.vehicle_category = previous.vehicle_category
    /\ current.year = previous.year + 1
    /\ current.quarter = previous.quarter

qoq_join_on(current, previous) ==
    /\ current.manufacturer = previous.manufacturer
    /\ current.vehicle_category = previous.vehicle_category
    /\ \/ current.year = previous.year /\ current.quarter = previous.quarter + 1
       \/ current.year = previous.year + 1 /\ current.quarter = 1
          /\ previous.quarter = 4

(* a failing query is caught and answered with an empty DataFrame *)
get_yoy_growth_data(table, fails) ==
    IF fails THEN Table({})
    ELSE LET g == yearly_data(table)
         IN  Table(left_join(g, {pr \in g \X g : yoy_join_on(pr[1], pr[2])}))

(* mutant: a failing query is not answered with an empty DataFrame *)
get_qoq_growth_data_unguarded(table, fails) ==
    LET g == quarterly_data(table)
    IN  Table(left_join(g, {pr \in g \X g : qoq_join_on(pr[1], pr[2])}))

get_qoq_growth_data(table, fails) ==
    IF fails THEN Table({})
    ELSE LET g == quarterly_data(table)
         IN  Table(left_join(g, {pr \in g \X g : qoq_join_on(pr[1], pr[2])}))

----------------------------------------------------------------------------
(* The store: replace-all loads.  Every call opens its own connection; the  *)
(* DELETE opens a transaction that the to_sql insert joins; leaving the     *)
(* with block commits, and an exception rolls the transaction back.         *)

Faults == {"none", "connect", "insert"}

(* mutant: the DELETE is missing *)
delete_registrations_skipped(table) == table

(* conn.execute("DELETE FROM vehicle_registrations") *)
delete_registrations(table) == <<>>

(* df.to_sql('vehicle_registrations', conn, if_exists='append', index=False) *)
append_registrations(table, rows) == table \o rows

(* mutant: the DELETE stays when the insert raises *)
insert_registration_data_unrolled(table, d, fault) ==
    IF fault = "connect" THEN [table |-> table, ret |-> 0]
    ELSE IF fault = "insert"
    THEN [table |-> delete_registrations(table), ret |-> 0]
    ELSE [table |-> append_registrations(delete_registrations(table), d.rows),
          ret |-> Len(d.rows)]

(* a fault is caught and 0 returned; the with block has rolled back what *)
(* the statements before the fault did                                   *)
insert_registration_data(table, d, fault) ==
    IF fault # "none"
    THEN [table |-> table, ret |-> 0]
    ELSE [table |-> append_registrations(delete_registrations(table), d.rows),
          ret |-> Len(d.rows)]

(* mutant: the DELETE is missing *)
delete_metrics_skipped(table) == table

(* conn.execute("DELETE FROM growth_metrics") *)
delete_metrics(table) == EmptyBag

(* df.to_sql('growth_metrics', conn, if_exists='append', index=False) *)
append_metrics(table, rows) == table (+) SetToBag(rows)

insert_growth_metrics(table, rows, fault) ==
    IF fault # "none"
    THEN [table |-> table, ret |-> 0]
    ELSE [table |-> append_metrics(delete_metrics(table), rows),
          ret |-> Cardinality(rows)]

----------------------------------------------------------------------------
(* Store queries.  A query is answered with the set of results SQLite may  *)
(* give: rows that tie on the ORDER BY expression come in either order.    *)
(* A failing query is caught and answered with an empty DataFrame (an      *)
(* empty dict for the summary).                                            *)

NoReply == [op |-> "none"]

(* a row with its ORDER BY key, the rational num/den (den > 0) *)
SortItem(row, num, den) == [row |-> row, num |-> num, den |-> den]

key_geq(a, b) == a.num * b.den >= b.num * a.den

(* ORDER BY key DESC *)
RECURSIVE order_by_desc(_)
order_by_desc(items) ==
    IF items = {} THEN {<<>>}
    ELSE UNION {{<<x.row>> \o t : t \in order_by_desc(items \ {x})} :
                    x \in {y \in items : \A z \in items : key_geq(y, z)}}

(* LIMIT ?: a negative limit is no limit *)
sql_limit(s, n) == IF n < 0 \/ n >= Len(s) THEN s ELSE SubSeq(s, 1, n)

(* SUM(registrations) over the rows at the positions I *)
RECURSIVE sum_registrations(_, _)
sum_registrations(table, I) ==
    IF I = {} THEN 0
    ELSE LET i == CHOOSE j \in I : TRUE
         IN  table[i].registrations + sum_registrations(table, I \ {i})

(* the metric column of a growth_metrics row *)
metric_of(r, metric) == IF metric = "yoy_growth" THEN r.yoy_growth ELSE r.qoq_growth

(* mutant: the WHERE clause is missing, and a null counts as zero *)
where_not_null_skipped(rows, metric) == rows

(* WHERE yoy_growth IS NOT NULL (WHERE qoq_growth IS NOT NULL) *)
where_not_null(rows, metric) == {r \in rows : metric_of(r, metric) # Null}

(* the sum of the metric over the rows R of the bag, and the number of rows *)
RECURSIVE sum_metric(_, _, _)
sum_metric(bag, R, metric) ==
    IF R = {} THEN 0
    ELSE LET r == CHOOSE x \in R : TRUE
         IN  CopiesIn(r, bag) * metric_of(r, metric).v
             + sum_metric(bag, R \ {r}, metric)

RECURSIVE count_rows(_, _)
count_rows(bag, R) ==
    IF R = {} THEN 0
    ELSE LET r == CHOOSE x \in R : TRUE
         IN  CopiesIn(r, bag) + count_rows(bag, R \ {r})

max_metric(R, metric) ==
    CHOOSE v \in {metric_of(r, metric).v : r \in R} :
        \A r \in R : metric_of(r, metric).v <= v

(* SELECT manufacturer, vehicle_category, AVG(m), MAX(m) FROM growth_metrics *)
(* WHERE m IS NOT NULL GROUP BY manufacturer, vehicle_category               *)
top_by_growth(metrics, metric) ==
    LET rows   == where_not_null(BagToSet(metrics), metric)
        series == {<<r.manufacturer, r.vehicle_category>> : r \in rows}
        of(s)  == {r \in rows : <<r.manufacturer, r.vehicle_category>> = s}
    IN  {SortItem([manufacturer |-> s[1], vehicle_category |-> s[2],
                   avg_sum |-> sum_metric(metrics, of(s), metric),
                   avg_count |-> count_rows(metrics, of(s)),
                   max |-> max_metric(of(s), metric)],
                  sum_metric(metrics, of(s), metric),
                  count_rows(metrics, of(s))) : s \in series}

(* mutant: the bare column instead of SUM(registrations) *)
top_total_bare(table, I) == table[CHOOSE i \in I : \A j \in I : i <= j].registrations

(* SUM(registrations) as registrations of one manufacturer's rows *)
top_total(table, I) == sum_registrations(table, I)

(* SELECT manufacturer, SUM(registrations), COUNT(DISTINCT vehicle_category) *)
(* FROM vehicle_registrations GROUP BY manufacturer                          *)
top_by_registrations(table) ==
    LET of(m) == {i \in DOMAIN table : table[i].manufacturer = m}
    IN  {SortItem([manufacturer |-> m,
                   registrations |-> top_total(table, of(m)),
                   categories_served |->
                       Cardinality({table[i].vehicle_category : i \in of(m)})],
                  top_total(table, of(m)), 1) :
            m \in {table[i].manufacturer : i \in DOMAIN table}}

Metrics == {"registrations", "yoy_growth", "qoq_growth", "other"}

get_top_performers(table, metrics, metric, limit, fails) ==
    IF fails THEN {<<>>}
    ELSE IF metric \in {"yoy_growth", "qoq_growth"}
    THEN {sql_limit(s, limit) : s \in order_by_desc(top_by_growth(metrics, metric))}
    ELSE {sql_limit(s, limit) : s \in order_by_desc(top_by_registrations(table))}

(* WHERE year BETWEEN ? AND ?, added when both years are given and non-zero *)
between_years(table, start_year, end_year) ==
    IF start_year # 0 /\ end_year # 0
    THEN {i \in DOMAIN table :
            table[i].year >= start_year /\ table[i].year <= end_year}
    ELSE DOMAIN table

get_vehicle_counts_by_category(table, start_year, end_year, fails) ==
    IF fails THEN {<<>>}
    ELSE LET I     == between_years(table, start_year, end_year)
             of(c) == {i \in I : table[i].vehicle_category = c}
         IN  order_by_desc(
               {SortItem([vehicle_category |-> c,
                          registrations |-> sum_registrations(table, of(c)),
                          manufacturer_count |->
                              Cardinality({table[i].manufacturer : i \in of(c)})],
                         sum_registrations(table, of(c)), 1) :
                   c \in {table[i].vehicle_category : i \in I}})

get_manufacturer_wise_counts(table, start_year, end_year, fails) ==
    IF fails THEN {<<>>}
    ELSE LET I     == between_years(table, start_year, end_year)
             of(s) == {i \in I : <<table[i].manufacturer,
                                   table[i].vehicle_category>> = s}
         IN  order_by_desc(
               {SortItem([manufacturer |-> s[1], vehicle_category |-> s[2],
                          registrations |-> sum_registrations(table, of(s)),
                          avg_sum |-> sum_registrations(table, of(s)),
                          avg_count |-> Cardinality(of(s))],
                         sum_registrations(table, of(s)), 1) :
                   s \in {<<table[i].manufacturer, table[i].vehicle_category>> :
                            i \in I}})

(* an aggregate of an empty table: SUM, MIN and MAX are NULL *)
aggregate(table, v) == IF table = <<>> THEN Null ELSE Num(v)

(* SELECT COUNT, SUM(registrations), COUNT(DISTINCT ...), MIN(year),       *)
(* MAX(year) FROM vehicle_registrations; result.iloc[0].to_dict(): a dict,  *)
(* here the set of its items                                               *)
get_summary_statistics(table, fails) ==
    IF fails THEN {}
    ELSE LET years == {table[i].year : i \in DOMAIN table}
         IN  {<<"total_records", Num(Len(table))>>,
              <<"registrations",
                aggregate(table, sum_registrations(table, DOMAIN table))>>,
              <<"unique_manufacturers",
                Num(Cardinality({table[i].manufacturer : i \in DOMAIN table}))>>,
              <<"unique_categories",
                Num(Cardinality({table[i].vehicle_category : i \in DOMAIN table}))>>,
              <<"earliest_year",
                aggregate(table, CHOOSE y \in years : \A z \in years : y <= z)>>,
              <<"latest_year",
                aggregate(table, CHOOSE y \in years : \A z \in years : z <= y)>>}

----------------------------------------------------------------------------
(* The processor's other computations on self.df *)

(* df.groupby(['vehicle_category', 'year', 'quarter'])['registrations'].sum() *)
calculate_category_totals(d) ==
    IF d.none THEN NoneTable
    ELSE LET t     == d.rows
             of(k) == {i \in DOMAIN t :
                          <<t[i].vehicle_category, t[i].year, t[i].quarter>> = k}
         IN  Table({[vehicle_category |-> k[1], year |-> k[2], quarter |-> k[3],
                     registrations |-> sum_registrations(t, of(k))] :
                       k \in {<<t[i].vehicle_category, t[i].year, t[i].quarter>> :
                                i \in DOMAIN t}})

(* DataFrame.head(n): the first n rows; all but the last -n for a negative n *)
head(s, n) ==
    IF n >= Len(s) THEN s
    ELSE IF n >= 0 THEN SubSeq(s, 1, n)
    ELSE IF Len(s) + n <= 0 THEN <<>> ELSE SubSeq(s, 1, Len(s) + n)

(* the rows of the latest quarter of the latest year, summed by manufacturer, *)
(* sorted by registrations descending (ties in either order), head(n);        *)
(* None when no data is loaded                                                *)
processor_top_performers(d, n) ==
    IF d.none THEN {None}
    ELSE LET t      == d.rows
             latest == {i \in DOMAIN t : \A j \in DOMAIN t :
                           \/ t[j].year < t[i].year
                           \/ t[j].year = t[i].year /\ t[j].quarter <= t[i].quarter}
             of(m)  == {i \in latest : t[i].manufacturer = m}
         IN  {Frame(head(s, n)) :
                s \in order_by_desc(
                        {SortItem([manufacturer |-> m,
                                   registrations |-> sum_registrations(t, of(m))],
                                  sum_registrations(t, of(m)), 1) :
                            m \in {t[i].manufacturer : i \in latest}})}

----------------------------------------------------------------------------
(* generate_insights.  Its input is None or a record set with a set of     *)
(* column names; the rows carry the fields of a ledger row, and a column   *)
(* that is not in the set is not there.  The date column holds the first   *)
(* day of the row's quarter, the category column the row's vehicle         *)
(* category, the year_quarter column the row's year and quarter.           *)
(* An insight is a record: the text without a value has only a kind.       *)

LedgerColumns ==
    {"date", "year", "quarter", "vehicle_category", "manufacturer", "registrations"}

View(cols, rows) == [none |-> FALSE, cols |-> cols, rows |-> rows]

NoView == [none |-> TRUE, cols |-> {}, rows |-> <<>>]

(* self.df as generate_insights sees it *)
self_df(d) == IF d.none THEN NoView ELSE View(LedgerColumns, d.rows)

Insight(kind) == [kind |-> kind]

(* mutant: only a missing record set is empty *)
is_empty_none_only(d) == d.none

(* local_df is None or (hasattr(local_df, 'empty') and local_df.empty) *)
is_empty(d) == d.none \/ d.rows = <<>>

(* the year column of working: from the date, the year column, or the *)
(* year_quarter column                                                *)
has_year(cols) ==
    \/ "date" \in cols
    \/ "year" \in cols
    \/ "year_quarter" \in cols

(* the quarter column of working, and whether it is a year-quarter label *)
has_quarter(cols) ==
    \/ "date" \in cols
    \/ "quarter" \in cols
    \/ "year_quarter" \in cols

(* the label of a row's quarter; labels of one width sort as the periods do *)
quarter_label(cols, r) ==
    IF "date" \in cols \/ "year" \in cols \/ "year_quarter" \in cols
    THEN <<r.year, r.quarter>>
    ELSE <<0, r.quarter>>

(* 'manufacturer' if present, else 'category', else None *)
level(cols) ==
    IF "manufacturer" \in cols THEN "manufacturer"
    ELSE IF "category" \in cols THEN "category"
    ELSE "none"

level_of(lv, r) == IF lv = "manufacturer" THEN r.manufacturer ELSE r.vehicle_category

(* a groupby on a missing column, or the selection of a missing column, *)
(* raises KeyError                                                      *)
raises(cols) == ~has_year(cols) \/ "registrations" \notin cols

(* pct_change() * 100.0 of a row after its predecessor: the exact ratio  *)
(* n/d, inf for a positive value after zero, NaN for zero after zero     *)
pct_change(curr, prev) ==
    IF prev = 0
    THEN IF curr = 0 THEN Null ELSE Inf
    ELSE [k |-> "num", v |-> <<(curr - prev) * 100, prev>>]

(* a value as the format :.1f prints it, in tenths *)
format_1f(g) ==
    IF g.k = "num" THEN Num(np_round(g.v[1] * 10, g.v[2])) ELSE g

(* mutant: the predecessor is the row of the calendar year before *)
preceding_year_calendar(years, y) == IF y - 1 \in years THEN {y - 1} ELSE {}

(* the year of the row before year y in a level's sorted rows *)
preceding_year(years, y) ==
    {p \in years : p < y /\ \A z \in years : z < y => z <= p}

(* agg: registrations summed by (level, year), sorted by level and year, *)
(* with the yoy_growth of each row after the preceding row of its level  *)
agg(lv, rows) ==
    LET of(l, y) == {i \in DOMAIN rows : level_of(lv, rows[i]) = l /\ rows[i].year = y}
        total(l, y) == sum_registrations(rows, of(l, y))
        years(l) == {rows[i].year : i \in {j \in DOMAIN rows : level_of(lv, rows[j]) = l}}
    IN  {[level |-> l, year |-> y, registrations |-> total(l, y),
          yoy_growth |->
              IF preceding_year(years(l), y) = {} THEN Null
              ELSE pct_change(total(l, y),
                              total(l, CHOOSE p \in preceding_year(years(l), y) : TRUE))] :
            <<l, y>> \in {<<level_of(lv, rows[i]), rows[i].year>> : i \in DOMAIN rows}}

(* agg[agg['year'] == agg['year'].max()] *)
latest_slice(a) == {r \in a : \A x \in a : x.year <= r.year}

(* dropna(subset=['yoy_growth']): NaN is dropped, inf is kept *)
dropna(rows) == {r \in rows : r.yoy_growth # Null}

(* sort_values('yoy_growth', ascending=False).dropna(...).head(3): the   *)
(* order of equal values is not defined                                  *)
top_yoy(slice) ==
    {head(s, 3) :
        s \in order_by_desc(
                {SortItem(<<r.level, format_1f(r.yoy_growth)>>,
                          IF r.yoy_growth = Inf THEN 1 ELSE r.yoy_growth.v[1],
                          IF r.yoy_growth = Inf THEN 0 ELSE r.yoy_growth.v[2]) :
                    r \in dropna(slice)})}

(* The two signals are computed in binary64.  The values that occur      *)
(* are finite and not negative: zero, or 53 bits m, the first of them 1,  *)
(* scaled by 2^e.  Bits are written most significant first; long integers *)
(* are added, multiplied and divided in limbs of 15 bits, the divisors    *)
(* and multipliers being below 2^15.                                      *)
Zero64 == [m |-> <<>>, e |-> 0]

zeros(n) == [i \in 1..n |-> 0]

strip(b) ==
    IF \A i \in DOMAIN b : b[i] = 0 THEN <<>>
    ELSE LET first == CHOOSE i \in DOMAIN b :
                          b[i] = 1 /\ \A j \in 1..(i - 1) : b[j] = 0
         IN  SubSeq(b, first, Len(b))

RECURSIVE bits_of(_)
bits_of(n) == IF n = 0 THEN <<>> ELSE Append(bits_of(n \div 2), n % 2)

increment(b) ==
    IF \A i \in DOMAIN b : b[i] = 1 THEN <<1>> \o zeros(Len(b))
    ELSE LET low == CHOOSE i \in DOMAIN b :
                         b[i] = 0 /\ \A j \in (i + 1)..Len(b) : b[j] = 1
         IN  [i \in DOMAIN b |-> IF i < low THEN b[i] ELSE IF i = low THEN 1 ELSE 0]

(* the binary64 nearest to bits * 2^e, plus a positive amount below 2^e   *)
(* when sticky; ties go to the even mantissa                              *)
round64(bits, e, sticky) ==
    LET b == strip(bits)
        n == Len(b)
    IN  IF n = 0 THEN Zero64
        ELSE IF n <= 53 THEN [m |-> b \o zeros(53 - n), e |-> e - (53 - n)]
        ELSE LET kept == SubSeq(b, 1, 53)
                 half == b[54] = 1
                 rest == sticky \/ \E i \in 55..n : b[i] = 1
                 up   == half /\ (rest \/ kept[53] = 1)
                 r    == IF up THEN increment(kept) ELSE kept
             IN  IF Len(r) = 54
                 THEN [m |-> SubSeq(r, 1, 53), e |-> e + (n - 53) + 1]
                 ELSE [m |-> r, e |-> e + (n - 53)]

(* an int64 as a binary64 *)
float_of(n) == round64(bits_of(n), 0, FALSE)

(* the integer written by the bits i..j *)
RECURSIVE value_of(_, _, _)
value_of(b, i, j) == IF i > j THEN 0 ELSE 2 * value_of(b, i, j - 1) + b[j]

limbs_of(b) ==
    LET n == (Len(b) + 14) \div 15
        p == zeros(15 * n - Len(b)) \o b
    IN  [k \in 1..n |-> value_of(p, 15 * (k - 1) + 1, 15 * k)]

RECURSIVE pow2(_)
pow2(n) == IF n = 0 THEN 1 ELSE 2 * pow2(n - 1)

bits_of_limbs(L) ==
    [i \in 1..(15 * Len(L)) |->
        (L[((i - 1) \div 15) + 1] \div pow2(14 - ((i - 1) % 15))) % 2]

(* quotient and remainder of the limbs from position i on, after r, by d *)
RECURSIVE div_limbs(_, _, _, _)
div_limbs(L, i, d, r) ==
    IF i > Len(L) THEN [q |-> <<>>, r |-> r]
    ELSE LET x    == 32768 * r + L[i]
             rest == div_limbs(L, i + 1, d, x % d)
         IN  [q |-> <<x \div d>> \o rest.q, r |-> rest.r]

(* x / d for an integer d > 0 *)
div64(x, d) ==
    IF x.m = <<>> THEN Zero64
    ELSE LET s   == 54 + Len(bits_of(d))
             res == div_limbs(limbs_of(x.m \o zeros(s)), 1, d, 0)
         IN  round64(bits_of_limbs(res.q), x.e - s, res.r # 0)

(* the limbs up to position i, times n, plus carry *)
RECURSIVE mul_limbs(_, _, _, _)
mul_limbs(L, i, n, carry) ==
    IF i = 0 THEN IF carry = 0 THEN <<>> ELSE <<carry>>
    ELSE LET x == L[i] * n + carry
         IN  Append(mul_limbs(L, i - 1, n, x \div 32768), x % 32768)

(* x * n for an integer n > 0 *)
mul64(x, n) ==
    IF x.m = <<>> THEN Zero64
    ELSE LET L == limbs_of(x.m)
         IN  round64(bits_of_limbs(mul_limbs(L, Len(L), n, 0)), x.e, FALSE)

(* two values as integers of one length over a common exponent *)
aligned(x, y) ==
    LET e == IF x.m = <<>> THEN y.e
             ELSE IF y.m = <<>> THEN x.e
             ELSE IF x.e < y.e THEN x.e ELSE y.e
        a == IF x.m = <<>> THEN <<>> ELSE x.m \o zeros(x.e - e)
        b == IF y.m = <<>> THEN <<>> ELSE y.m \o zeros(y.e - e)
        n == IF Len(a) > Len(b) THEN Len(a) ELSE Len(b)
    IN  [a |-> zeros(n - Len(a)) \o a, b |-> zeros(n - Len(b)) \o b, e |-> e]

RECURSIVE add_limbs(_, _, _, _)
add_limbs(a, b, i, carry) ==
    IF i = 0 THEN IF carry = 1 THEN <<1>> ELSE <<>>
    ELSE LET x == a[i] + b[i] + carry
         IN  Append(add_limbs(a, b, i - 1, x \div 32768), x % 32768)

(* a - b for a >= b *)
RECURSIVE sub_limbs(_, _, _, _)
sub_limbs(a, b, i, borrow) ==
    IF i = 0 THEN <<>>
    ELSE LET x == a[i] - b[i] - borrow
         IN  Append(sub_limbs(a, b, i - 1, IF x < 0 THEN 1 ELSE 0),
                    IF x < 0 THEN x + 32768 ELSE x)

less_bits(a, b) ==
    \E i \in DOMAIN a : a[i] < b[i] /\ \A j \in 1..(i - 1) : a[j] = b[j]

add64(x, y) ==
    IF x.m = <<>> THEN y
    ELSE IF y.m = <<>> THEN x
    ELSE LET al == aligned(x, y)
             L  == limbs_of(al.a)
         IN  round64(bits_of_limbs(add_limbs(L, limbs_of(al.b), Len(L), 0)),
                     al.e, FALSE)

(* abs(x - y) *)
absdiff64(x, y) ==
    IF x.m = <<>> THEN y
    ELSE IF y.m = <<>> THEN x
    ELSE LET al == aligned(x, y)
             A  == limbs_of(al.a)
             B  == limbs_of(al.b)
         IN  IF less_bits(al.a, al.b)
             THEN round64(bits_of_limbs(sub_limbs(B, A, Len(A), 0)), al.e, FALSE)
             ELSE round64(bits_of_limbs(sub_limbs(A, B, Len(A), 0)), al.e, FALSE)

(* x > y *)
gt64(x, y) ==
    IF x.m = <<>> THEN FALSE
    ELSE IF y.m = <<>> THEN TRUE
    ELSE LET al == aligned(x, y) IN less_bits(al.b, al.a)

(* the product of two long integers, limb by limb of the second *)
RECURSIVE mul_long(_, _, _, _)
mul_long(A, B, j, acc) ==
    IF j > Len(B) THEN acc
    ELSE LET shifted == Append(acc, 0)
             part    == mul_limbs(A, Len(A), B[j], 0)
             n       == IF Len(shifted) > Len(part) THEN Len(shifted) ELSE Len(part)
         IN  mul_long(A, B, j + 1,
                      add_limbs(zeros(n - Len(shifted)) \o shifted,
                                zeros(n - Len(part)) \o part, n, 0))

(* x ** 2 *)
square64(x) ==
    IF x.m = <<>> THEN Zero64
    ELSE LET L == limbs_of(x.m)
         IN  round64(bits_of_limbs(mul_long(L, L, 1, <<>>)), 2 * x.e, FALSE)

(* the sum of the values from position i on, added to acc one by one, as *)
(* a sum of fewer than eight values is taken                             *)
RECURSIVE sum64(_, _, _)
sum64(v, i, acc) ==
    IF i > Len(v) THEN acc ELSE sum64(v, i + 1, add64(acc, v[i]))

(* SUM over a set of rows of agg *)
RECURSIVE sum_rows(_)
sum_rows(R) ==
    IF R = {} THEN 0
    ELSE LET r == CHOOSE x \in R : TRUE
         IN  r.registrations + sum_rows(R \ {r})

(* the level names of the ledgers, in the order sort_values gives them *)
SortedLevels == <<"2W", "3W", "A", "Acme", "B", "Bolt", "C", "D", "E", "F">>

position(l) == CHOOSE i \in DOMAIN SortedLevels : SortedLevels[i] = l

(* the rows of the latest year in the order of agg, sorted by level *)
sorted_slice(slice) ==
    [i \in 1..Cardinality(slice) |->
        CHOOSE r \in slice :
            Cardinality({x \in slice : position(x.level) < position(r.level)}) = i - 1]

(* hhi_like >= 0.20, where hhi_like is the sum of (registrations /        *)
(* total_latest) ** 2, and of 0 when total_latest is 0                    *)
hhi_like(slice) ==
    LET total   == sum_rows(slice)
        ordered == sorted_slice(slice)
        squares == [i \in DOMAIN ordered |->
                       square64(div64(float_of(ordered[i].registrations), total))]
    IN  /\ total # 0
        /\ ~gt64(div64(float_of(1), 5), sum64(squares, 1, Zero64))

concentration(slice) ==
    IF hhi_like(slice) THEN Insight("concentrated") ELSE Insight("competitive")

(* the insights of the grouping level *)
level_insights(lv, rows) ==
    IF lv = "none" THEN {<<>>}
    ELSE LET slice  == latest_slice(agg(lv, rows))
             latest == IF slice = {} THEN 0 ELSE (CHOOSE r \in slice : TRUE).year
         IN  {(IF names = <<>> THEN <<>>
               ELSE <<[kind |-> "top_yoy", year |-> latest, names |-> names]>>)
              \o <<concentration(slice)>> : names \in top_yoy(slice)}

(* registrations summed by year *)
by_year(rows) ==
    {[year |-> y,
      registrations |-> sum_registrations(rows, {i \in DOMAIN rows : rows[i].year = y})] :
        y \in {rows[i].year : i \in DOMAIN rows}}

(* mutant: the denominator is the prior total even when it is zero *)
overall_yoy_unguarded(rows) ==
    LET t    == by_year(rows)
        last_row   == CHOOSE r \in t : \A x \in t : x.year <= r.year
        before == CHOOSE r \in t \ {last_row} : \A x \in t \ {last_row} : x.year <= r.year
        prev == before.registrations
        curr == last_row.registrations
    IN  IF Cardinality(t) >= 2
        THEN <<[kind |-> "overall", prev |-> prev, curr |-> curr,
                value |-> format_1f(pct_change(curr, prev))]>>
        ELSE <<>>

(* overall_yoy = (curr - prev) / denom * 100.0, denom = prev if prev != 0 else 1 *)
overall_yoy(rows) ==
    LET t    == by_year(rows)
        last_row   == CHOOSE r \in t : \A x \in t : x.year <= r.year
        before == CHOOSE r \in t \ {last_row} : \A x \in t \ {last_row} : x.year <= r.year
        prev == before.registrations
        curr == last_row.registrations
        denom == IF prev # 0 THEN prev ELSE 1
    IN  IF Cardinality(t) >= 2
        THEN <<[kind |-> "overall", prev |-> prev, curr |-> curr,
                value |-> format_1f([k |-> "num", v |-> <<(curr - prev) * 100, denom>>])]>>
        ELSE <<>>

(* registrations summed by quarter label, in the order of the labels *)
by_q(cols, rows) ==
    LET labels == {quarter_label(cols, rows[i]) : i \in DOMAIN rows}
        before(l) == {m \in labels : m[1] < l[1] \/ (m[1] = l[1] /\ m[2] < l[2])}
        total(l) == sum_registrations(rows,
                        {i \in DOMAIN rows : quarter_label(cols, rows[i]) = l})
    IN  [i \in 1..Cardinality(labels) |->
            total(CHOOSE l \in labels : Cardinality(before(l)) = i - 1)]

(* pct_change().abs().dropna() of the quarter totals from position i on: *)
(* each change is abs(q[i] / q[i-1] - 1); a change from zero is inf, or   *)
(* NaN (dropped) when the total stays zero                                *)
RECURSIVE changes(_, _)
changes(q, i) ==
    IF i > Len(q) THEN [inf |-> FALSE, kept |-> <<>>]
    ELSE LET rest == changes(q, i + 1)
         IN  IF q[i - 1] = 0
             THEN IF q[i] = 0 THEN rest ELSE [rest EXCEPT !.inf = TRUE]
             ELSE [rest EXCEPT
                      !.kept = <<absdiff64(div64(float_of(q[i]), q[i - 1]),
                                           float_of(1))>> \o @]

(* vol = mean of the changes * 100.0; vol > 20.  The mean of no change is *)
(* NaN, which is not greater than 20                                      *)
volatile(q) ==
    LET c == changes(q, 2)
    IN  \/ c.inf
        \/ /\ c.kept # <<>>
           /\ gt64(mul64(div64(sum64(c.kept, 1, Zero64), Len(c.kept)), 100),
                   float_of(20))

volatility(cols, rows) ==
    IF has_quarter(cols) /\ Len(by_q(cols, rows)) >= 4
    THEN IF volatile(by_q(cols, rows))
         THEN <<Insight("volatile")>> ELSE <<Insight("stable")>>
    ELSE <<>>

(* mutant: no default statement *)
default_insight_skipped(insights) == insights

(* if not insights: insights.append("Growth is steady ...") *)
default_insight(insights) ==
    IF insights = <<>> THEN <<Insight("steady")>> ELSE insights

(* generate_insights(df): the set of lists it may return *)
generate_insights(arg, self) ==
    LET local_df == IF ~arg.none THEN arg ELSE self
    IN  IF is_empty(local_df) THEN {<<Insight("no_data")>>}
        ELSE IF raises(local_df.cols) THEN {<<Insight("diagnostic")>>}
        ELSE {default_insight(li \o overall_yoy(local_df.rows)
                                 \o volatility(local_df.cols, local_df.rows)) :
                li \in level_insights(level(local_df.cols), local_df.rows)}

----------------------------------------------------------------------------
(* process_all_data *)

MetricsRow(key, n, yoy, qoq) ==
    [manufacturer |-> key[1], vehicle_category |-> key[2], year |-> key[3],
     quarter |-> key[4], registrations |-> n, yoy_growth |-> yoy, qoq_growth |-> qoq]

(* pd.merge(yoy_data[[..., 'registrations', 'yoy_growth']],                *)
(*          qoq_data[[..., 'qoq_growth']], on=[key], how='outer')          *)
merge_growth_metrics(yoy, qoq) ==
    {MetricsRow(Key(y), Num(y.registrations), y.growth, q.growth) :
        <<y, q>> \in {pr \in yoy \X qoq : Key(pr[1]) = Key(pr[2])}}
    \cup {MetricsRow(Key(y), Num(y.registrations), y.growth, Null) :
            y \in {y \in yoy : \A q \in qoq : Key(q) # Key(y)}}
    \cup {MetricsRow(Key(q), Null, Null, q.growth) :
            q \in {q \in qoq : \A y \in yoy : Key(y) # Key(q)}}

(* the growth column a how='left' merge on the key attaches to a ledger row; *)
(* no merge is done with an empty table, which leaves the column out         *)
growth_column(r, t) ==
    IF t.none \/ t.rows = {} THEN Absent
    ELSE LET m == {x \in t.rows : Key(x) = Key(r)}
         IN  IF m = {} THEN Null ELSE (CHOOSE x \in m : TRUE).growth

ProcessedRow(r, yoy, qoq) ==
    [manufacturer |-> r.manufacturer, vehicle_category |-> r.vehicle_category,
     year |-> r.year, quarter |-> r.quarter, registrations |-> r.registrations,
     yoy_growth |-> growth_column(r, yoy), qoq_growth |-> growth_column(r, qoq)]

merge_processed(rows, yoy, qoq) ==
    [i \in DOMAIN rows |-> ProcessedRow(rows[i], yoy, qoq)]

NoFaults == [ins_reg |-> "none", yoy |-> FALSE, qoq |-> FALSE, ins_met |-> "none"]

(* the store faults of one run: at most one store operation fails *)
FaultSets ==
    {NoFaults}
    \cup {[NoFaults EXCEPT !.ins_reg = x] : x \in Faults}
    \cup {[NoFaults EXCEPT !.yoy = TRUE], [NoFaults EXCEPT !.qoq = TRUE]}
    \cup {[NoFaults EXCEPT !.ins_met = x] : x \in Faults}

Loads == {"ok", "read", "date"}

InsertCall(before, d, fault, ret) ==
    [called |-> TRUE, before |-> before, arg |-> d.rows, fault |-> fault, ret |-> ret]

(* load_data: read_csv raises before self.df is assigned ("read"), or the *)
(* date conversion raises after it ("date"); both return False            *)
load_data(b, load) ==
    IF load = "read" THEN df' = df ELSE df' = [df EXCEPT ![b] = Frame(csv)]

process_database(b, f) ==
    LET d   == Frame(csv)
        ins == insert_registration_data(vehicle_registrations, d, f.ins_reg)
        yoy == get_yoy_growth_data(ins.table, f.yoy)
        qoq == get_qoq_growth_data(ins.table, f.qoq)
        met == insert_growth_metrics(growth_metrics,
                                     merge_growth_metrics(yoy.rows, qoq.rows),
                                     f.ins_met)
    IN  /\ vehicle_registrations' = ins.table
        /\ insert_call' = InsertCall(vehicle_registrations, d, f.ins_reg, ins.ret)
        /\ yoy_data' = [yoy_data EXCEPT ![b] = yoy]
        /\ qoq_data' = [qoq_data EXCEPT ![b] = qoq]
        /\ growth_metrics' = IF yoy.rows # {} /\ qoq.rows # {}
                             THEN met.table ELSE growth_metrics
        /\ processed_df' = [processed_df EXCEPT
                                ![b] = Frame(merge_processed(d.rows, yoy, qoq))]

process_memory(b) ==
    LET d   == Frame(csv)
        yoy == calculate_yoy_growth(d)
        qoq == calculate_qoq_growth(d)
    IN  /\ yoy_data' = [yoy_data EXCEPT ![b] = yoy]
        /\ qoq_data' = [qoq_data EXCEPT ![b] = qoq]
        /\ processed_df' = [processed_df EXCEPT
                                ![b] = Frame(merge_processed(d.rows, yoy, qoq))]
        /\ UNCHANGED <<vehicle_registrations, growth_metrics, insert_call>>

process_all_data(b, load, f) ==
    /\ load_data(b, load)
    /\ IF load # "ok"
       THEN UNCHANGED <<processed_df, yoy_data, qoq_data, vehicle_registrations,
                        growth_metrics, insert_call>>
       ELSE IF b = "database" THEN process_database(b, f) ELSE process_memory(b)

(* the insert_growth_metrics call of a store-backed run: made only when both *)
(* growth tables have rows                                                   *)
metrics_call(yoy, qoq, metrics, fault) ==
    IF yoy.rows # {} /\ qoq.rows # {}
    THEN [called |-> TRUE,
          ret |-> insert_growth_metrics(metrics,
                                        merge_growth_metrics(yoy.rows, qoq.rows),
                                        fault).ret]
    ELSE [called |-> FALSE, ret |-> 0]

(* every combination of store faults of one run *)
AllFaults ==
    [ins_reg : Faults, yoy : BOOLEAN, qoq : BOOLEAN, ins_met : Faults]

----------------------------------------------------------------------------
(* Ledgers of the specification's scenarios *)

ScenarioYoY == <<Rec("Acme", "2W", 2022, 1, 1000), Rec("Acme", "2W", 2023, 1, 1500)>>

ScenarioQoQ == <<Rec("Acme", "2W", 2023, 4, 800), Rec("Acme", "2W", 2024, 1, 600)>>

ScenarioDup == <<Rec("Acme", "2W", 2023, 1, 100), Rec("Acme", "2W", 2023, 1, 50)>>

----------------------------------------------------------------------------
(* The growth engine on one ledger: the ledger file is written row by row, *)
(* in the order of its periods, and then each processor runs on it.        *)

(* the state after the processors are constructed on a store file that holds *)
(* the given tables (CREATE TABLE IF NOT EXISTS keeps what is there)         *)
InitStore(c, table, metrics) ==
    /\ csv = c
    /\ df = [b \in Backends |-> None]
    /\ processed_df = [b \in Backends |-> None]
    /\ yoy_data = [b \in Backends |-> NoneTable]
    /\ qoq_data = [b \in Backends |-> NoneTable]
    /\ vehicle_registrations = table
    /\ growth_metrics = metrics
    /\ insert_call = [called |-> FALSE, before |-> <<>>, arg |-> <<>>,
                      fault |-> "none", ret |-> 0]
    /\ runs = 0
    /\ last = <<>>
    /\ conn = [pc |-> "idle", pending |-> <<>>, arg |-> <<>>, before |-> <<>>]
    /\ seen = [valid |-> FALSE, during |-> "idle", rows |-> <<>>, old |-> <<>>,
               new |-> <<>>]
    /\ reply = NoReply

InitState(c) == InitStore(c, <<>>, EmptyBag)

InitEngine == \E c \in {<<>>, ScenarioYoY, ScenarioQoQ, ScenarioDup} : InitState(c)

Period(r) == 4 * r.year + r.quarter

(* position of a row in the file: generate_sample_data loops over the years, *)
(* the quarters, and then the manufacturers in list order                    *)
FileOrder(r) == 2 * Period(r) + (IF r.manufacturer = "Acme" THEN 0 ELSE 1)

CollectRow(r) ==
    /\ Len(csv) < MaxRows
    /\ \A b \in Backends : df[b].none
    /\ IF csv = <<>> THEN TRUE ELSE FileOrder(csv[Len(csv)]) <= FileOrder(r)
    /\ csv' = Append(csv, r)
    /\ UNCHANGED <<df, processed_df, yoy_data, qoq_data, vehicle_registrations,
                   growth_metrics, insert_call, runs, last, conn, seen, reply>>

EngineRun(b) ==
    /\ df[b].none
    /\ process_all_data(b, "ok", NoFaults)
    /\ UNCHANGED <<csv, runs, last, conn, seen, reply>>

NextEngine ==
    \/ \E r \in Records : CollectRow(r)
    \/ \E b \in Backends : EngineRun(b)

SpecEngine == InitEngine /\ [][NextEngine]_vars

----------------------------------------------------------------------------
(* The program over several runs: the ledger file is rewritten by the data  *)
(* collection, processors run process_all_data, and database.main() loads   *)
(* the file into the store.                                                 *)

LedgerBoth ==
    <<Rec("Acme", "2W", 2023, 1, 32), Rec("Acme", "2W", 2023, 4, 32),
      Rec("Acme", "2W", 2024, 1, 33)>>

LedgerMixed ==
    <<Rec("Acme", "2W", 2023, 1, 32), Rec("Acme", "2W", 2023, 2, 33),
      Rec("Acme", "2W", 2024, 1, 33)>>

Catalog == {<<>>, ScenarioYoY, ScenarioQoQ, ScenarioDup, LedgerBoth, LedgerMixed}

Init == \E c \in Catalog : InitState(c)

(* collect_and_save: save_data_to_csv overwrites the ledger file *)
SaveCsv(c) ==
    /\ runs < MaxRuns
    /\ c # csv
    /\ csv' = c
    /\ UNCHANGED <<df, processed_df, yoy_data, qoq_data, vehicle_registrations,
                   growth_metrics, insert_call, runs, last, conn, seen, reply>>

Snapshot(b, f) ==
    [backend |-> b, ledger |-> csv, clean |-> (f = NoFaults),
     processed |-> processed_df'[b], metrics |-> growth_metrics']

ProcessAllData(b) ==
    /\ runs < MaxRuns
    /\ runs' = runs + 1
    /\ UNCHANGED <<csv, conn, seen, reply>>
    /\ \/ \E load \in Loads \ {"ok"} :
            /\ process_all_data(b, load, NoFaults)
            /\ last' = last
       \/ \E f \in (IF b = "database" THEN FaultSets ELSE {NoFaults}) :
            /\ process_all_data(b, "ok", f)
            /\ last' = IF last = <<>> THEN <<Snapshot(b, f)>>
                       ELSE <<Snapshot(b, f), last[1]>>

(* database.main(): df = pd.read_csv(...); db.insert_registration_data(df) *)
DatabaseMain ==
    /\ runs < MaxRuns
    /\ runs' = runs + 1
    /\ \E fault \in Faults :
        LET ins == insert_registration_data(vehicle_registrations, Frame(csv), fault)
        IN  /\ vehicle_registrations' = ins.table
            /\ insert_call' = InsertCall(vehicle_registrations, Frame(csv), fault, ins.ret)
    /\ UNCHANGED <<csv, df, processed_df, yoy_data, qoq_data, growth_metrics, last,
                   conn, seen, reply>>

Next ==
    \/ \E c \in Catalog : SaveCsv(c)
    \/ \E b \in Backends : ProcessAllData(b)
    \/ DatabaseMain

Spec == Init /\ [][Next]_vars

----------------------------------------------------------------------------
(* insert_registration_data statement by statement on the writer's          *)
(* connection, with a reader that queries through a connection of its own.  *)

Idle == [pc |-> "idle", pending |-> <<>>, arg |-> <<>>, before |-> <<>>]

(* mutant: an autocommit connection, whose every statement is visible at once *)
visible_autocommit(table, c) == IF c.pc = "idle" THEN table ELSE c.pending

(* the rows a query on another connection reads: sqlite3 runs the DELETE in *)
(* an implicit transaction, whose changes stay private until the commit     *)
visible(table, c) == table

(* with self.get_connection() as conn: conn.execute("DELETE ...") *)
ExecuteDelete(c) ==
    /\ conn.pc = "idle"
    /\ conn' = [pc |-> "deleted", pending |-> delete_registrations(vehicle_registrations),
                arg |-> c, before |-> vehicle_registrations]
    /\ UNCHANGED <<csv, df, processed_df, yoy_data, qoq_data, vehicle_registrations,
                   growth_metrics, insert_call, runs, last, seen, reply>>

(* df.to_sql(..., if_exists='append') *)
ToSql ==
    /\ conn.pc = "deleted"
    /\ conn' = [conn EXCEPT !.pc = "inserted",
                            !.pending = append_registrations(conn.pending, conn.arg)]
    /\ UNCHANGED <<csv, df, processed_df, yoy_data, qoq_data, vehicle_registrations,
                   growth_metrics, insert_call, runs, last, seen, reply>>

(* leaving the with block: commit, return rows_inserted *)
Commit ==
    /\ conn.pc = "inserted"
    /\ vehicle_registrations' = conn.pending
    /\ insert_call' = InsertCall(conn.before, Frame(conn.arg), "none", Len(conn.arg))
    /\ conn' = Idle
    /\ UNCHANGED <<csv, df, processed_df, yoy_data, qoq_data, growth_metrics, runs,
                   last, seen, reply>>

(* to_sql raises: the with block rolls back, the handler returns 0 *)
Rollback ==
    /\ conn.pc = "deleted"
    /\ insert_call' = InsertCall(conn.before, Frame(conn.arg), "insert", 0)
    /\ conn' = Idle
    /\ UNCHANGED <<csv, df, processed_df, yoy_data, qoq_data, vehicle_registrations,
                   growth_metrics, runs, last, seen, reply>>

(* a query (SELECT ... FROM vehicle_registrations) on the reader's connection *)
Read ==
    /\ seen' = [valid |-> TRUE, during |-> conn.pc,
                rows |-> visible(vehicle_registrations, conn),
                old |-> IF conn.pc = "idle" THEN vehicle_registrations ELSE conn.before,
                new |-> IF conn.pc = "idle" THEN vehicle_registrations ELSE conn.arg]
    /\ UNCHANGED <<csv, df, processed_df, yoy_data, qoq_data, vehicle_registrations,
                   growth_metrics, insert_call, runs, last, conn, reply>>

NextAtomic ==
    \/ \E c \in Catalog : ExecuteDelete(c)
    \/ ToSql
    \/ Commit
    \/ Rollback
    \/ Read

SpecAtomic == InitState(<<>>) /\ [][NextAtomic]_vars

----------------------------------------------------------------------------
(* Clients of the store and of the processors: the ledger file is written,  *)
(* each processor runs process_all_data until it has loaded the file, and   *)
(* clients query the store and the processors.  The store file may hold the *)
(* tables an earlier process left.                                          *)

ScenarioTop ==
    <<Rec("A", "2W", 2023, 1, 500), Rec("B", "2W", 2023, 1, 400),
      Rec("C", "2W", 2023, 1, 300), Rec("B", "3W", 2024, 1, 500)>>

(* Acme: YoY +20 and +10, QoQ +50 and -20 and one point without QoQ;       *)
(* Bolt: QoQ +12 and no YoY                                                *)
LedgerMetrics ==
    <<Rec("Acme", "2W", 2023, 1, 100), Rec("Acme", "2W", 2023, 3, 100),
      Rec("Acme", "2W", 2023, 4, 150), Rec("Bolt", "2W", 2023, 4, 200),
      Rec("Acme", "2W", 2024, 1, 120), Rec("Bolt", "2W", 2024, 1, 224),
      Rec("Acme", "2W", 2024, 3, 110)>>

ApiCatalog == {<<>>, ScenarioTop, LedgerMetrics, LedgerBoth}

ApiRecords ==
    {Rec("Acme", "2W", 2024, 4, n) : n \in {32, 33}}
    \cup {Rec("Bolt", c, 2024, 4, 32) : c \in {"2W", "3W"}}

Limits == {-1, 0, 1, 2, 10}

(* limit = 10 and n = 5 are the defaults of the two get_top_performers *)
DefaultLimits == {5, 10}

(* start_year and end_year of the count queries; 0 stands for None *)
YearRanges == {<<0, 0>>, <<2023, 2023>>}

(* the tables a fault-free store-backed run on the ledger t leaves *)
stored_by_run(t) ==
    LET yoy == get_yoy_growth_data(t, FALSE)
        qoq == get_qoq_growth_data(t, FALSE)
    IN  [table |-> t,
         metrics |-> IF yoy.rows # {} /\ qoq.rows # {}
                     THEN SetToBag(merge_growth_metrics(yoy.rows, qoq.rows))
                     ELSE EmptyBag]

ApiCollectRow(r) ==
    /\ reply = NoReply
    /\ CollectRow(r)

ApiProcessAllData(b, loads, faults) ==
    /\ processed_df[b].none
    /\ \E load \in loads :
        \E f \in (IF b = "database" /\ load = "ok" THEN faults ELSE {NoFaults}) :
            /\ process_all_data(b, load, f)
            /\ reply' = [op |-> "process_all_data", backend |-> b, load |-> load,
                         faults |-> f,
                         before |-> [registrations |-> vehicle_registrations,
                                     metrics |-> growth_metrics,
                                     processed |-> processed_df[b]],
                         met |-> metrics_call(yoy_data'[b], qoq_data'[b],
                                              growth_metrics, f.ins_met),
                         result |-> IF load = "ok" THEN processed_df'[b] ELSE None]
    /\ UNCHANGED <<csv, runs, last, conn, seen>>

ApiFrame == <<csv, df, processed_df, yoy_data, qoq_data, vehicle_registrations,
              growth_metrics, insert_call, runs, last, conn, seen>>

GetTopPerformers(limits) ==
    /\ \E metric \in Metrics, limit \in limits, fails \in BOOLEAN :
        \E res \in get_top_performers(vehicle_registrations, growth_metrics,
                                      metric, limit, fails) :
            reply' = [op |-> "get_top_performers", metric |-> metric,
                      limit |-> limit, fails |-> fails, result |-> res]
    /\ UNCHANGED ApiFrame

GetVehicleCountsByCategory(ranges) ==
    /\ \E range \in ranges, fails \in BOOLEAN :
        \E res \in get_vehicle_counts_by_category(vehicle_registrations,
                                                  range[1], range[2], fails) :
            reply' = [op |-> "get_vehicle_counts_by_category", range |-> range,
                      fails |-> fails, result |-> res]
    /\ UNCHANGED ApiFrame

GetManufacturerWiseCounts(ranges) ==
    /\ \E range \in ranges, fails \in BOOLEAN :
        \E res \in get_manufacturer_wise_counts(vehicle_registrations,
                                                range[1], range[2], fails) :
            reply' = [op |-> "get_manufacturer_wise_counts", range |-> range,
                      fails |-> fails, result |-> res]
    /\ UNCHANGED ApiFrame

GetYoYGrowthData ==
    /\ \E fails \in BOOLEAN :
        reply' = [op |-> "get_yoy_growth_data", fails |-> fails,
                  result |-> get_yoy_growth_data(vehicle_registrations, fails)]
    /\ UNCHANGED ApiFrame

GetQoQGrowthData ==
    /\ \E fails \in BOOLEAN :
        reply' = [op |-> "get_qoq_growth_data", fails |-> fails,
                  result |-> get_qoq_growth_data(vehicle_registrations, fails)]
    /\ UNCHANGED ApiFrame

GetSummaryStatistics ==
    /\ \E fails \in BOOLEAN :
        reply' = [op |-> "get_summary_statistics", fails |-> fails,
                  result |-> get_summary_statistics(vehicle_registrations, fails)]
    /\ UNCHANGED ApiFrame

(* a client calls one of the processor's computations on self.df *)
Calculate(b) ==
    /\ \/ reply' = [op |-> "calculate_yoy_growth", backend |-> b,
                     result |-> calculate_yoy_growth(df[b])]
       \/ reply' = [op |-> "calculate_qoq_growth", backend |-> b,
                     result |-> calculate_qoq_growth(df[b])]
       \/ reply' = [op |-> "calculate_category_totals", backend |-> b,
                     result |-> calculate_category_totals(df[b])]
       \/ \E n \in DefaultLimits : \E res \in processor_top_performers(df[b], n) :
            reply' = [op |-> "processor.get_top_performers", backend |-> b, n |-> n,
                      result |-> res]
    /\ UNCHANGED ApiFrame

(* the store and its queries: the ledger file is written, database.main() or *)
(* a fault-free run loads it, and clients query the store                    *)
InitQuery ==
    \E c \in ApiCatalog, old \in {<<>>, LedgerMetrics} :
        InitStore(c, stored_by_run(old).table, stored_by_run(old).metrics)

NextQuery ==
    \/ \E r \in ApiRecords : ApiCollectRow(r)
    \/ ApiProcessAllData("database", {"ok"}, {NoFaults})
    \/ GetTopPerformers(Limits)
    \/ GetVehicleCountsByCategory(YearRanges)
    \/ GetManufacturerWiseCounts(YearRanges)
    \/ GetYoYGrowthData
    \/ GetQoQGrowthData
    \/ GetSummaryStatistics

SpecQuery == InitQuery /\ [][NextQuery]_vars

(* the processors under load failures and store faults, on a few ledgers *)
InitApi ==
    \E c \in {<<>>, LedgerMetrics, LedgerBoth}, old \in {<<>>, LedgerMetrics} :
        InitStore(c, stored_by_run(old).table, stored_by_run(old).metrics)

NextApi ==
    \/ \E b \in Backends : ApiProcessAllData(b, Loads, AllFaults)
    \/ GetTopPerformers(DefaultLimits)
    \/ GetVehicleCountsByCategory({<<0, 0>>})
    \/ GetManufacturerWiseCounts({<<0, 0>>})
    \/ GetYoYGrowthData
    \/ GetQoQGrowthData
    \/ GetSummaryStatistics
    \/ \E b \in Backends : Calculate(b)

SpecApi == InitApi /\ [][NextApi]_vars

----------------------------------------------------------------------------
(* The insight generator: the ledger file is written, a processor may load *)
(* it, and a client calls generate_insights with no argument (self.df) or  *)
(* with a record set made of the ledger rows under some set of columns,    *)
(* all of them or, after a filter that keeps nothing, none.                *)

(* Acme has no row in 2022 *)
ScenarioGap ==
    <<Rec("Acme", "2W", 2021, 1, 100), Rec("Bolt", "2W", 2022, 1, 80),
      Rec("Acme", "2W", 2023, 1, 150), Rec("Bolt", "2W", 2023, 1, 100)>>

(* Acme grows from zero *)
ScenarioZero ==
    <<Rec("Acme", "2W", 2023, 1, 0), Rec("Bolt", "2W", 2023, 1, 32),
      Rec("Acme", "2W", 2024, 1, 32), Rec("Bolt", "2W", 2024, 1, 33)>>

(* five and six manufacturers with equal shares *)
ScenarioFive ==
    <<Rec("A", "2W", 2024, 1, 10), Rec("B", "2W", 2024, 1, 10),
      Rec("C", "2W", 2024, 1, 10), Rec("D", "2W", 2024, 1, 10),
      Rec("E", "2W", 2024, 1, 10)>>

ScenarioSix == Append(ScenarioFive, Rec("F", "2W", 2024, 1, 10))

(* four manufacturers growing by 10, 20, 30 and 40 percent *)
ScenarioFour ==
    <<Rec("A", "2W", 2023, 1, 10), Rec("B", "2W", 2023, 1, 10),
      Rec("C", "2W", 2023, 1, 10), Rec("D", "2W", 2023, 1, 10),
      Rec("A", "2W", 2024, 1, 11), Rec("B", "2W", 2024, 1, 12),
      Rec("C", "2W", 2024, 1, 13), Rec("D", "2W", 2024, 1, 14)>>

(* four quarters changing by 20, 25 and 20 percent, and by 10, 9.1 and 8.3 *)
ScenarioVolatile ==
    <<Rec("Acme", "2W", 2024, 1, 10), Rec("Acme", "2W", 2024, 2, 12),
      Rec("Acme", "2W", 2024, 3, 15), Rec("Acme", "2W", 2024, 4, 12)>>

ScenarioStable ==
    <<Rec("Acme", "2W", 2024, 1, 10), Rec("Acme", "2W", 2024, 2, 11),
      Rec("Acme", "2W", 2024, 3, 12), Rec("Acme", "2W", 2024, 4, 13)>>

(* four quarters whose changes average exactly 20 percent: 60, 0 and 0, *)
(* and 0, 0 and 60                                                     *)
ScenarioTwenty ==
    <<Rec("Acme", "2W", 2024, 1, 5), Rec("Acme", "2W", 2024, 2, 2),
      Rec("Acme", "2W", 2024, 3, 2), Rec("Acme", "2W", 2024, 4, 2)>>

ScenarioTwentyUp ==
    <<Rec("Acme", "2W", 2024, 1, 5), Rec("Acme", "2W", 2024, 2, 5),
      Rec("Acme", "2W", 2024, 3, 5), Rec("Acme", "2W", 2024, 4, 8)>>

(* four quarters, the two first with no registration *)
ScenarioIdle ==
    <<Rec("Acme", "2W", 2024, 1, 0), Rec("Acme", "2W", 2024, 2, 0),
      Rec("Acme", "2W", 2024, 3, 32), Rec("Acme", "2W", 2024, 4, 33)>>

(* six manufacturers whose squared shares sum to exactly 0.20: 80 / 400 *)
ScenarioShares ==
    <<Rec("A", "2W", 2024, 1, 1), Rec("B", "2W", 2024, 1, 2),
      Rec("C", "2W", 2024, 1, 5), Rec("D", "2W", 2024, 1, 4),
      Rec("E", "2W", 2024, 1, 5), Rec("F", "2W", 2024, 1, 3)>>

InsightCatalog ==
    {<<>>, ScenarioTop, ScenarioGap, ScenarioZero, ScenarioFive, ScenarioSix,
     ScenarioFour, ScenarioVolatile, ScenarioStable, ScenarioTwenty,
     ScenarioTwentyUp, ScenarioIdle, ScenarioShares}

InsightRecords ==
    {Rec(m, "2W", y, 1, n) : m \in {"Acme", "Bolt"}, y \in Years, n \in {0, 32}}

(* the columns of the record sets passed to generate_insights *)
Schemas ==
    {LedgerColumns,
     {"year", "quarter", "category", "registrations"},
     {"year", "quarter", "registrations"},
     {"year", "registrations"},
     {"year_quarter", "manufacturer", "registrations"},
     {"manufacturer", "registrations"},
     {"manufacturer", "year", "quarter"}}

InitInsights == \E c \in InsightCatalog : InitState(c)

(* generate_insights changes nothing: a call that follows another call in *)
(* the same state returns what a first call returns, and is left out      *)
GenerateInsights(b) ==
    /\ reply.op # "generate_insights"
    /\ \E arg \in {NoView} \cup {View(cols, rows) : cols \in Schemas,
                                                     rows \in {csv, <<>>}} :
        LET local_df == IF ~arg.none THEN arg ELSE self_df(df[b])
        IN  \E res \in generate_insights(arg, self_df(df[b])) :
                reply' = [op |-> "generate_insights", backend |-> b,
                          input |-> local_df,
                          agg |-> IF is_empty(local_df) \/ raises(local_df.cols)
                                     \/ level(local_df.cols) = "none"
                                  THEN {}
                                  ELSE agg(level(local_df.cols), local_df.rows),
                          result |-> res]
    /\ UNCHANGED ApiFrame

NextInsights ==
    \/ \E r \in InsightRecords : ApiCollectRow(r)
    \/ ApiProcessAllData("memory", {"ok"}, {NoFaults})
    \/ \E b \in Backends : GenerateInsights(b)

SpecInsights == InitInsights /\ [][NextInsights]_vars

----------------------------------------------------------------------------
(* Reference definitions used by the properties *)

RECURSIVE SumOver(_, _)
SumOver(t, I) ==
    IF I = {} THEN 0
    ELSE LET i == CHOOSE j \in I : TRUE
         IN  t[i].registrations + SumOver(t, I \ {i})

(* total registrations of the ledger rows with the given key *)
Total(t, key) == SumOver(t, {i \in DOMAIN t : Key(t[i]) = key})

HasPoint(t, key) == \E i \in DOMAIN t : Key(t[i]) = key

LedgerKeys(t) == {Key(t[i]) : i \in DOMAIN t}

(* the same quarter one year earlier *)
YoYPred(key) == <<key[1], key[2], key[3] - 1, key[4]>>

(* the quarter before, counting quarters from year 0 *)
QoQPred(key) ==
    LET n == 4 * key[3] + (key[4] - 1) - 1
    IN  <<key[1], key[2], n \div 4, (n % 4) + 1>>

(* round(n/d) to the nearest integer, a tie to the even neighbour (Python's round) *)
Round2(n, d) ==
    LET lo == n \div d
    IN  IF 2 * (n - lo * d) < d THEN lo
        ELSE IF 2 * (n - lo * d) > d THEN lo + 1
        ELSE 2 * ((lo + 1) \div 2)

RowsOf(t, key) == {r \in t.rows : Key(r) = key}

Ran(b) == ~df[b].none /\ ~yoy_data[b].none /\ ~qoq_data[b].none

BothRan == Ran("memory") /\ Ran("database")

----------------------------------------------------------------------------
(* Properties of the growth engine (checked under SpecEngine) *)

(* C1: for every backend and every PeriodPoint whose predecessor one year   *)
(* earlier exists with registrations > 0, the yoy_growth emitted equals     *)
(* round((curr - prev) / prev * 100, 2): one row, with that value.          *)
(* The store-backed value differs on an exact tie.                          *)
C1_YoYIsRounded ==
    \A b \in Backends : Ran(b) =>
        \A key \in LedgerKeys(df[b].rows) :
            LET t    == df[b].rows
                curr == Total(t, key)
                prev == Total(t, YoYPred(key))
            IN  (HasPoint(t, YoYPred(key)) /\ prev > 0) =>
                    /\ RowsOf(yoy_data[b], key) # {}
                    /\ \A r \in RowsOf(yoy_data[b], key) :
                           r.growth = Num(Round2((curr - prev) * 10000, prev))

(* C2: in both backends the QoQ value of a PeriodPoint is the growth over  *)
(* the PeriodPoint of the quarter before (quarter 4 of the year before for *)
(* quarter 1) and of no other period: the in-memory table has exactly one  *)
(* row for the point, null when that predecessor is absent; the store      *)
(* table has the row exactly when that predecessor exists with             *)
(* registrations > 0, and reports that predecessor's registrations.        *)
C2_QoQPredecessor ==
    /\ Ran("memory") =>
        \A key \in LedgerKeys(df["memory"].rows) :
            LET t == df["memory"].rows
                pk == QoQPred(key)
            IN  /\ Cardinality(RowsOf(qoq_data["memory"], key)) = 1
                /\ \A r \in RowsOf(qoq_data["memory"], key) :
                       r.growth = IF HasPoint(t, pk)
                                  THEN pandas_growth(Total(t, key), Total(t, pk))
                                  ELSE Null
    /\ Ran("database") =>
        \A key \in LedgerKeys(df["database"].rows) :
            LET t == df["database"].rows
                pk == QoQPred(key)
            IN  IF HasPoint(t, pk) /\ Total(t, pk) > 0
                THEN /\ Cardinality(RowsOf(qoq_data["database"], key)) = 1
                     /\ \A r \in RowsOf(qoq_data["database"], key) :
                            /\ r.prev_registrations = Num(Total(t, pk))
                            /\ r.growth = sql_growth(Total(t, key), Total(t, pk))
                ELSE RowsOf(qoq_data["database"], key) = {}

(* C2 witness: the scenario ledger (2023 Q4: 800, 2024 Q1: 600) together   *)
(* with a row for quarter 4 of 2024 has gone through both backends, and    *)
(* both report -25.00 for 2024 Q1.                                         *)
C2_Witness ==
    /\ BothRan
    /\ \A b \in Backends :
        /\ Len(df[b].rows) = 3
        /\ SubSeq(df[b].rows, 1, 2) = ScenarioQoQ
        /\ HasPoint(df[b].rows, <<"Acme", "2W", 2024, 4>>)
        /\ \E r \in RowsOf(qoq_data[b], <<"Acme", "2W", 2024, 1>>) :
               r.growth = Num(-2500)

(* C3: a PeriodPoint whose aligned predecessor (YoY or QoQ) exists with    *)
(* registrations = 0 has a null growth value in every backend.             *)
(* The in-memory computation emits +infinity.                              *)
C3_ZeroGuard ==
    \A b \in Backends : Ran(b) =>
        \A key \in LedgerKeys(df[b].rows) :
            LET t == df[b].rows
            IN  /\ (HasPoint(t, YoYPred(key)) /\ Total(t, YoYPred(key)) = 0) =>
                       \A r \in RowsOf(yoy_data[b], key) : r.growth = Null
                /\ (HasPoint(t, QoQPred(key)) /\ Total(t, QoQPred(key)) = 0) =>
                       \A r \in RowsOf(qoq_data[b], key) : r.growth = Null

(* the GrowthRows of a processed table; a growth column that was not merged *)
(* reads as null                                                            *)
AsNull(g) == IF g = Absent THEN Null ELSE g

GrowthRows(f) ==
    {<<Key(f.rows[i]), AsNull(f.rows[i].yoy_growth), AsNull(f.rows[i].qoq_growth)>> :
        i \in DOMAIN f.rows}

(* C4: on the same ledger the in-memory path and the store-backed path of  *)
(* process_all_data return the same GrowthRow set.                         *)
(* They differ on exact ties and on zero predecessors.                     *)
C4_BackendsAgree ==
    (BothRan /\ df["memory"] = df["database"]) =>
        GrowthRows(processed_df["memory"]) = GrowthRows(processed_df["database"])

(* C5: calculate_yoy_growth and calculate_qoq_growth emit exactly one row  *)
(* per PeriodPoint of the ledger, and a null growth for a PeriodPoint      *)
(* without its predecessor.                                                *)
C5_NoRowDropped ==
    Ran("memory") =>
        LET t    == df["memory"].rows
            keys == LedgerKeys(t)
        IN  /\ Cardinality(yoy_data["memory"].rows) = Cardinality(keys)
            /\ Cardinality(qoq_data["memory"].rows) = Cardinality(keys)
            /\ \A key \in keys :
                /\ Cardinality(RowsOf(yoy_data["memory"], key)) = 1
                /\ Cardinality(RowsOf(qoq_data["memory"], key)) = 1
                /\ ~HasPoint(t, YoYPred(key)) =>
                       \A r \in RowsOf(yoy_data["memory"], key) : r.growth = Null
                /\ ~HasPoint(t, QoQPred(key)) =>
                       \A r \in RowsOf(qoq_data["memory"], key) : r.growth = Null

(* C5 witness: a ledger of three PeriodPoints, one of them with a YoY      *)
(* predecessor and two without, gives three rows in each table.            *)
C5_Witness ==
    /\ Ran("memory")
    /\ Cardinality(LedgerKeys(df["memory"].rows)) = 3
    /\ Cardinality(yoy_data["memory"].rows) = 3
    /\ \E r \in yoy_data["memory"].rows : r.growth = Null
    /\ \E r \in yoy_data["memory"].rows : r.growth.k = "num"
    /\ \E r \in qoq_data["memory"].rows : r.growth = Null

(* the growth a backend computes from two totals *)
BackendGrowth(b, curr, prev) ==
    IF b = "memory" THEN pandas_growth(curr, prev) ELSE sql_growth(curr, prev)

(* C6: in both backends every emitted row carries the sum of the           *)
(* registrations of all ledger rows of its key, no key has two rows, and   *)
(* the growth is the growth between the summed predecessor and the summed  *)
(* point.                                                                  *)
C6_DuplicatesSummed ==
    \A b \in Backends : Ran(b) =>
        LET t == df[b].rows
        IN  /\ \A r \in yoy_data[b].rows :
                /\ r.registrations = Total(t, Key(r))
                /\ Cardinality(RowsOf(yoy_data[b], Key(r))) = 1
                /\ HasPoint(t, YoYPred(Key(r))) =>
                       r.growth = BackendGrowth(b, Total(t, Key(r)),
                                                Total(t, YoYPred(Key(r))))
            /\ \A r \in qoq_data[b].rows :
                /\ r.registrations = Total(t, Key(r))
                /\ Cardinality(RowsOf(qoq_data[b], Key(r))) = 1
                /\ HasPoint(t, QoQPred(Key(r))) =>
                       r.growth = BackendGrowth(b, Total(t, Key(r)),
                                                Total(t, QoQPred(Key(r))))

(* C6 witness: the scenario ledger with two rows of 100 and 50 for          *)
(* (Acme, 2W, 2023, 1), followed by a row for 2024 Q1, has gone through     *)
(* both backends: the in-memory table holds the single point of 150, and    *)
(* both backends computed the 2024 growth from 150.                         *)
C6_Witness ==
    /\ BothRan
    /\ \A b \in Backends :
        /\ Len(df[b].rows) = 3
        /\ SubSeq(df[b].rows, 1, 2) = ScenarioDup
        /\ df[b].rows[3] = Rec("Acme", "2W", 2024, 1, 33)
        /\ \E r \in RowsOf(yoy_data[b], <<"Acme", "2W", 2024, 1>>) :
               r.growth = Num(-7800)
    /\ \E r \in yoy_data["memory"].rows :
           Key(r) = <<"Acme", "2W", 2023, 1>> /\ r.registrations = 150
    /\ \E r \in yoy_data["database"].rows : r.prev_registrations = Num(150)

----------------------------------------------------------------------------
(* Properties of the store (checked under Spec and SpecAtomic) *)

(* how many rows of the table t equal r *)
Count(t, r) == Cardinality({i \in DOMAIN t : t[i] = r})

SameMultiset(s, t) ==
    /\ Len(s) = Len(t)
    /\ \A i \in DOMAIN s : Count(s, s[i]) = Count(t, s[i])

(* C7: once the last insert_registration_data call has succeeded, the      *)
(* table vehicle_registrations holds exactly the records passed to it (the *)
(* same multiset, nothing of an earlier load), and the call returned their *)
(* number.                                                                 *)
C7_FullReplace ==
    (insert_call.called /\ insert_call.fault = "none") =>
        /\ SameMultiset(vehicle_registrations, insert_call.arg)
        /\ insert_call.ret = Len(insert_call.arg)

(* C7 witness: a successful load of two records over a store that held     *)
(* three other records.                                                    *)
C7_Witness ==
    /\ insert_call.called
    /\ insert_call.fault = "none"
    /\ insert_call.before = LedgerBoth
    /\ insert_call.arg = ScenarioQoQ
    /\ vehicle_registrations = ScenarioQoQ
    /\ insert_call.ret = 2

(* C8: two consecutive fault-free process_all_data runs of one processor   *)
(* on the same ledger return the same table, and leave the same            *)
(* growth_metrics table.                                                   *)
C8_Idempotent ==
    (/\ Len(last) = 2
     /\ last[1].backend = last[2].backend
     /\ last[1].ledger = last[2].ledger
     /\ last[1].clean /\ last[2].clean) =>
        /\ last[1].processed = last[2].processed
        /\ GrowthRows(last[1].processed) = GrowthRows(last[2].processed)
        /\ last[1].metrics = last[2].metrics

(* C8 witness: two fault-free store-backed runs on a ledger with YoY and   *)
(* QoQ rows, which persisted its growth rows.                              *)
C8_Witness ==
    /\ Len(last) = 2
    /\ last[1].backend = "database" /\ last[2].backend = "database"
    /\ last[1].ledger = LedgerBoth /\ last[2].ledger = LedgerBoth
    /\ last[1].clean /\ last[2].clean
    /\ last[1].metrics # EmptyBag
    /\ growth_metrics = last[1].metrics

(* the GrowthRows the store derives from a ledger *)
DerivedMetrics(t) ==
    merge_growth_metrics(get_yoy_growth_data(t, FALSE).rows,
                         get_qoq_growth_data(t, FALSE).rows)

(* C9: after every fault-free store-backed run on a ledger L the table     *)
(* growth_metrics holds exactly the GrowthRows derived from L.             *)
(* A run whose YoY or QoQ table is empty leaves the table as it was.       *)
C9_MetricsReplaced ==
    (last # <<>> /\ last[1].backend = "database" /\ last[1].clean) =>
        growth_metrics = SetToBag(DerivedMetrics(last[1].ledger))

----------------------------------------------------------------------------
(* Properties of the store queries (checked under SpecQuery) *)

MinOf(a, b) == IF a <= b THEN a ELSE b

Manufacturers(t) == {t[i].manufacturer : i \in DOMAIN t}

(* total registrations of a manufacturer over all categories and periods *)
TotalOf(t, m) == SumOver(t, {i \in DOMAIN t : t[i].manufacturer = m})

RegistrationsQuery ==
    /\ reply.op = "get_top_performers"
    /\ reply.metric \notin {"yoy_growth", "qoq_growth"}
    /\ ~reply.fails
    /\ reply.limit >= 0

(* C11: get_top_performers(metric = 'registrations', limit = n) returns    *)
(* min(n, number of manufacturers) distinct manufacturers, each with the   *)
(* total of its registrations over all categories and periods of the       *)
(* stored ledger, in descending order of total, and no manufacturer left   *)
(* out has a larger total than one returned; with totals A:500, B:900,     *)
(* C:300 and limit 2 the result is B, A.                                   *)
C11_TopByRegistrations ==
    RegistrationsQuery =>
        LET t   == vehicle_registrations
            res == reply.result
        IN  /\ Len(res) = MinOf(reply.limit, Cardinality(Manufacturers(t)))
            /\ \A i \in DOMAIN res :
                /\ res[i].manufacturer \in Manufacturers(t)
                /\ res[i].registrations = TotalOf(t, res[i].manufacturer)
                /\ \A j \in DOMAIN res :
                    /\ i < j => res[i].registrations >= res[j].registrations
                    /\ i # j => res[i].manufacturer # res[j].manufacturer
                /\ \A m \in Manufacturers(t) :
                    (\A j \in DOMAIN res : res[j].manufacturer # m) =>
                        TotalOf(t, m) <= res[i].registrations
            /\ (t = ScenarioTop /\ reply.limit = 2) =>
                   [i \in DOMAIN res |-> res[i].manufacturer] = <<"B", "A">>

(* C11 witness: the store holds the ledger with totals A:500, B:900 (400   *)
(* in one category and 500 in another period and category), C:300, and the *)
(* query with limit 2 returned B with 900, then A with 500.                *)
C11_Witness ==
    /\ RegistrationsQuery
    /\ reply.metric = "registrations"
    /\ reply.limit = 2
    /\ vehicle_registrations = ScenarioTop
    /\ Len(reply.result) = 2
    /\ reply.result[1].manufacturer = "B" /\ reply.result[1].registrations = 900
    /\ reply.result[2].manufacturer = "A" /\ reply.result[2].registrations = 500

MetricOf(r, metric) == IF metric = "yoy_growth" THEN r.yoy_growth ELSE r.qoq_growth

(* the stored rows of a series whose metric is not null *)
ValuedRows(metric, s) ==
    {r \in BagToSet(growth_metrics) :
        /\ <<r.manufacturer, r.vehicle_category>> = s
        /\ MetricOf(r, metric) # Null}

StoredSeries == {<<r.manufacturer, r.vehicle_category>> : r \in BagToSet(growth_metrics)}

ValuedSeries(metric) == {s \in StoredSeries : ValuedRows(metric, s) # {}}

RECURSIVE MetricSum(_, _)
MetricSum(metric, R) ==
    IF R = {} THEN 0
    ELSE LET r == CHOOSE x \in R : TRUE
         IN  CopiesIn(r, growth_metrics) * MetricOf(r, metric).v
             + MetricSum(metric, R \ {r})

RECURSIVE MetricCount(_)
MetricCount(R) ==
    IF R = {} THEN 0
    ELSE LET r == CHOOSE x \in R : TRUE
         IN  CopiesIn(r, growth_metrics) + MetricCount(R \ {r})

(* the average of series a is at least the average of series b *)
AvgGeq(metric, a, b) ==
    MetricSum(metric, ValuedRows(metric, a)) * MetricCount(ValuedRows(metric, b))
        >= MetricSum(metric, ValuedRows(metric, b)) * MetricCount(ValuedRows(metric, a))

GrowthQuery ==
    /\ reply.op = "get_top_performers"
    /\ reply.metric \in {"yoy_growth", "qoq_growth"}
    /\ ~reply.fails
    /\ reply.limit >= 0

(* C12: get_top_performers(metric in {yoy_growth, qoq_growth}, limit = n)  *)
(* returns min(n, number of series with a non-null value) distinct series, *)
(* each with the average of its non-null stored values of the metric, in   *)
(* descending order of that average; a series without a non-null value     *)
(* does not appear, and no series left out has a larger average than one   *)
(* returned.                                                               *)
C12_TopByGrowth ==
    GrowthQuery =>
        LET res     == reply.result
            m       == reply.metric
            ser(i)  == <<res[i].manufacturer, res[i].vehicle_category>>
        IN  /\ Len(res) = MinOf(reply.limit, Cardinality(ValuedSeries(m)))
            /\ \A i \in DOMAIN res :
                /\ ser(i) \in ValuedSeries(m)
                /\ res[i].avg_sum = MetricSum(m, ValuedRows(m, ser(i)))
                /\ res[i].avg_count = MetricCount(ValuedRows(m, ser(i)))
                /\ \A j \in DOMAIN res :
                    /\ i < j => AvgGeq(m, ser(i), ser(j))
                    /\ i # j => ser(i) # ser(j)
                /\ \A s \in ValuedSeries(m) :
                    (\A j \in DOMAIN res : ser(j) # s) => AvgGeq(m, ser(i), s)

(* C12 witness: the Metrics Store holds three rows of Acme, one of them    *)
(* with a null yoy_growth, and a row of Bolt with a null yoy_growth; the   *)
(* yoy_growth query returned Acme alone, with the average 15.00 of its two *)
(* values.                                                                 *)
C12_Witness ==
    /\ GrowthQuery
    /\ reply.metric = "yoy_growth"
    /\ reply.limit = 10
    /\ \E r \in BagToSet(growth_metrics) :
           r.manufacturer = "Bolt" /\ r.yoy_growth = Null
    /\ \E r \in BagToSet(growth_metrics) :
           r.manufacturer = "Acme" /\ r.yoy_growth = Null
    /\ Len(reply.result) = 1
    /\ reply.result[1].manufacturer = "Acme"
    /\ reply.result[1].avg_sum = 3000 /\ reply.result[1].avg_count = 2

StoreQueries ==
    {"get_vehicle_counts_by_category", "get_manufacturer_wise_counts",
     "get_yoy_growth_data", "get_qoq_growth_data", "get_top_performers",
     "get_summary_statistics"}

(* the result of a store query is empty: no rows, or no entries *)
EmptyResult ==
    IF reply.op \in {"get_yoy_growth_data", "get_qoq_growth_data"}
    THEN reply.result.rows = {}
    ELSE IF reply.op = "get_summary_statistics"
    THEN reply.result = {}
    ELSE reply.result = <<>>

(* C13: every query run against an empty store returns an empty result.    *)
(* get_summary_statistics returns the one row of its aggregates.           *)
C13_EmptyStoreEmptyResult ==
    (/\ reply.op \in StoreQueries
     /\ vehicle_registrations = <<>>
     /\ growth_metrics = EmptyBag) => EmptyResult

----------------------------------------------------------------------------
(* Properties of failures (checked under SpecApi) *)

StoreRun ==
    /\ reply.op = "process_all_data"
    /\ reply.backend = "database"
    /\ reply.load = "ok"

(* C14: a store query that fails returns an empty result; in a              *)
(* store-backed run a failing insert_registration_data returns 0, a        *)
(* failing growth query gives an empty table, a failing                    *)
(* insert_growth_metrics returns 0, and process_all_data returns a table   *)
(* with one row per ledger row.                                            *)
C14_StoreFailureDegrades ==
    /\ (reply.op \in StoreQueries /\ reply.fails) => EmptyResult
    /\ StoreRun =>
        /\ reply.faults.ins_reg # "none" =>
               insert_call.called /\ insert_call.ret = 0
        /\ reply.faults.yoy => yoy_data["database"] = Table({})
        /\ reply.faults.qoq => qoq_data["database"] = Table({})
        /\ (reply.met.called /\ reply.faults.ins_met # "none") => reply.met.ret = 0
        /\ ~reply.result.none
        /\ Len(reply.result.rows) = Len(csv)

(* C14 witness: a store-backed run on a ledger of seven rows in which the  *)
(* load of the ledger and the QoQ query failed: the load returned 0, the   *)
(* QoQ table is empty, and the run returned a table of seven rows.         *)
C14_Witness ==
    /\ StoreRun
    /\ reply.faults.ins_reg = "insert"
    /\ reply.faults.qoq /\ ~reply.faults.yoy
    /\ csv = LedgerMetrics
    /\ insert_call.ret = 0
    /\ qoq_data["database"] = Table({})
    /\ ~reply.result.none
    /\ Len(reply.result.rows) = 7

Computations ==
    {"calculate_yoy_growth", "calculate_qoq_growth", "calculate_category_totals",
     "processor.get_top_performers"}

(* C15: when load_data fails, process_all_data returns None and leaves the *)
(* Ledger Store, the Metrics Store and processed_df as they were; and the  *)
(* processor's computations return None before any successful load.        *)
(* After a load that failed on the date column they return tables.         *)
C15_NoDataSignal ==
    /\ (reply.op = "process_all_data" /\ reply.load # "ok") =>
        /\ reply.result = None
        /\ vehicle_registrations = reply.before.registrations
        /\ growth_metrics = reply.before.metrics
        /\ processed_df[reply.backend] = reply.before.processed
    /\ (reply.op \in Computations /\ processed_df[reply.backend].none) =>
        reply.result.none

----------------------------------------------------------------------------
(* Properties of the insight generator (checked under SpecInsights) *)

InsightCall == reply.op = "generate_insights"

EmptyInput == reply.input.none \/ reply.input.rows = <<>>

(* the input lacks a period or the registrations, so that a step fails *)
StepFails ==
    \/ reply.input.cols \cap {"date", "year", "year_quarter"} = {}
    \/ "registrations" \notin reply.input.cols

HasLevel == reply.input.cols \cap {"manufacturer", "category"} # {}

(* the grouping level of an input row *)
LevelOf(r) ==
    IF "manufacturer" \in reply.input.cols THEN r.manufacturer ELSE r.vehicle_category

InputYears == {reply.input.rows[i].year : i \in DOMAIN reply.input.rows}

LatestYear == CHOOSE y \in InputYears : \A z \in InputYears : z <= y

LevelYears(l) ==
    {reply.input.rows[i].year :
        i \in {j \in DOMAIN reply.input.rows : LevelOf(reply.input.rows[j]) = l}}

(* total registrations of a level in a year *)
LevelTotal(l, y) ==
    SumOver(reply.input.rows,
            {i \in DOMAIN reply.input.rows :
                LevelOf(reply.input.rows[i]) = l /\ reply.input.rows[i].year = y})

LatestLevels ==
    {LevelOf(reply.input.rows[i]) :
        i \in {j \in DOMAIN reply.input.rows : reply.input.rows[j].year = LatestYear}}

Kinds(k) == {i \in DOMAIN reply.result : reply.result[i].kind \in k}

InputLabels ==
    {<<reply.input.rows[i].year, reply.input.rows[i].quarter>> :
        i \in DOMAIN reply.input.rows}

(* C16: generate_insights on an empty input, no record set at all or one   *)
(* with zero rows, returns the 'no data available' placeholder and         *)
(* nothing else.                                                           *)
C16_EmptyInputPlaceholder ==
    (InsightCall /\ EmptyInput) => reply.result = <<[kind |-> "no_data"]>>

(* C16 witness: the processor has loaded a ledger of four rows, and        *)
(* generate_insights was called with a record set of zero rows.            *)
C16_Witness ==
    /\ InsightCall
    /\ ~reply.input.none
    /\ reply.input.cols = LedgerColumns
    /\ reply.input.rows = <<>>
    /\ ~df[reply.backend].none
    /\ Len(df[reply.backend].rows) = 4
    /\ reply.result = <<[kind |-> "no_data"]>>

C18_Concentration ==
    (InsightCall /\ ~EmptyInput /\ ~StepFails) =>
        LET total   == SumOver(reply.input.rows,
                               {i \in DOMAIN reply.input.rows :
                                   reply.input.rows[i].year = LatestYear})
            squares == [l \in LatestLevels |->
                           LevelTotal(l, LatestYear) * LevelTotal(l, LatestYear)]
            RECURSIVE Sum(_)
            Sum(L) == IF L = {} THEN 0
                      ELSE LET l == CHOOSE x \in L : TRUE
                           IN  squares[l] + Sum(L \ {l})
        IN  IF HasLevel
            THEN /\ Cardinality(Kinds({"concentrated", "competitive"})) = 1
                 /\ Kinds({"concentrated"}) # {}
                        <=> (total > 0 /\ 5 * Sum(LatestLevels) >= total * total)
                 /\ (Cardinality(LatestLevels) = 1 /\ total > 0)
                        => Kinds({"concentrated"}) # {}
            ELSE Kinds({"concentrated", "competitive"}) = {}

(* the levels of the latest year whose growth is defined: a preceding row *)
(* of the level exists and its total is not zero                          *)
DefinedGrowth ==
    {l \in LatestLevels :
        \E p \in LevelYears(l) :
            /\ p < LatestYear
            /\ \A z \in LevelYears(l) : z < LatestYear => z <= p
            /\ LevelTotal(l, p) # 0}

(* C19: the top-growers insight names min(3, number of levels with a       *)
(* defined growth) distinct levels of the latest year, each with a         *)
(* defined growth; a level without a preceding year row, or with a         *)
(* preceding total of zero, is never named, and there is no top-growers    *)
(* insight when no level has a defined growth.                             *)
(* A level that grows from a total of zero is named, with 'inf'.           *)
C19_TopGrowers ==
    (InsightCall /\ ~EmptyInput /\ ~StepFails /\ HasLevel) =>
        LET top == Kinds({"top_yoy"})
        IN  IF DefinedGrowth = {} THEN top = {}
            ELSE /\ Cardinality(top) = 1
                 /\ \A t \in top :
                      LET names == reply.result[t].names
                      IN  /\ reply.result[t].year = LatestYear
                          /\ Len(names) = MinOf(3, Cardinality(DefinedGrowth))
                          /\ \A i \in DOMAIN names :
                              /\ names[i][1] \in DefinedGrowth
                              /\ \A j \in DOMAIN names :
                                     i # j => names[i][1] # names[j][1]

(* the row of agg of a level and a year *)
AggRows(l, y) == {r \in reply.agg : r.level = l /\ r.year = y}

(* C20: in generate_insights every (level, year) of the input has one row  *)
(* of yoy growth: null for the first year of the level, and otherwise the  *)
(* percent change from the total of the level's nearest earlier year       *)
(* present, whatever the calendar distance and whatever the other levels   *)
(* hold; the top-growers insight shows that value.                         *)
C20_PrecedingRow ==
    (InsightCall /\ ~EmptyInput /\ ~StepFails /\ HasLevel) =>
        /\ \A i \in DOMAIN reply.input.rows :
            LET l  == LevelOf(reply.input.rows[i])
                y  == reply.input.rows[i].year
                P  == {p \in LevelYears(l) : p < y}
                p  == CHOOSE q \in P : \A z \in P : z <= q
            IN  /\ Cardinality(AggRows(l, y)) = 1
                /\ \A r \in AggRows(l, y) :
                    /\ r.registrations = LevelTotal(l, y)
                    /\ P = {} => r.yoy_growth = Null
                    /\ (P # {} /\ LevelTotal(l, p) # 0) =>
                        /\ r.yoy_growth.k = "num"
                        /\ r.yoy_growth.v[1] * LevelTotal(l, p)
                             = (LevelTotal(l, y) - LevelTotal(l, p)) * 100
                               * r.yoy_growth.v[2]
                        /\ r.yoy_growth.v[2] > 0
        /\ \A t \in Kinds({"top_yoy"}) :
            \A n \in DOMAIN reply.result[t].names :
                LET l == reply.result[t].names[n][1]
                    g == reply.result[t].names[n][2]
                    P == {p \in LevelYears(l) : p < LatestYear}
                    p == CHOOSE q \in P : \A z \in P : z <= q
                IN  /\ P # {}
                    /\ LevelTotal(l, p) # 0 =>
                           g = Num(Round2((LevelTotal(l, LatestYear) - LevelTotal(l, p))
                                          * 1000, LevelTotal(l, p)))

(* C20 witness: Acme has rows for 2021 and 2023 only, Bolt for 2022 and    *)
(* 2023; Acme's growth of 2023 is +50 percent, computed against 2021.      *)
C20_Witness ==
    /\ InsightCall
    /\ reply.input.cols = LedgerColumns
    /\ reply.input.rows = ScenarioGap
    /\ \E r \in reply.agg :
           r.level = "Acme" /\ r.year = 2023 /\ r.yoy_growth = [k |-> "num", v |-> <<5000, 100>>]
    /\ \E t \in Kinds({"top_yoy"}) :
           reply.result[t].names = <<<<"Acme", Num(500)>>, <<"Bolt", Num(250)>>>>

(* the total registrations of a year of the input *)
YearTotal(y) ==
    SumOver(reply.input.rows,
            {i \in DOMAIN reply.input.rows : reply.input.rows[i].year = y})

(* the latest year of the input but one *)
PriorYear ==
    CHOOSE y \in InputYears \ {LatestYear} :
        \A z \in InputYears \ {LatestYear} : z <= y

(* C21: when the input holds at least two distinct years and no step       *)
(* fails, generate_insights emits one overall statement, whose value is    *)
(* (curr - prev) / prev * 100 printed to one decimal, curr and prev being  *)
(* the total registrations of the two latest years present, with 1 in      *)
(* place of a prev of exactly 0, so that the value is finite; with fewer   *)
(* than two years there is no overall statement.  Nothing in it depends    *)
(* on the grouping level.                                                  *)
C21_OverallTrend ==
    (InsightCall /\ ~EmptyInput /\ ~StepFails) =>
        IF Cardinality(InputYears) >= 2
        THEN /\ Cardinality(Kinds({"overall"})) = 1
             /\ \A o \in Kinds({"overall"}) :
                 LET prev  == YearTotal(PriorYear)
                     curr  == YearTotal(LatestYear)
                     denom == IF prev = 0 THEN 1 ELSE prev
                     v     == reply.result[o].value
                     d     == v.v * denom - (curr - prev) * 1000
                 IN  /\ reply.result[o].prev = prev
                     /\ reply.result[o].curr = curr
                     /\ v.k = "num"
                     /\ 2 * d <= denom
                     /\ -2 * d <= denom
        ELSE Kinds({"overall"}) = {}

(* C21 witness: the prior year's total is 0 and the latest year's is 32:   *)
(* the overall statement shows 3200.0 percent.                             *)
C21_Witness ==
    /\ InsightCall
    /\ ~EmptyInput
    /\ \E o \in Kinds({"overall"}) :
           /\ reply.result[o].prev = 0
           /\ reply.result[o].curr = 32
           /\ reply.result[o].value = Num(32000)

RECURSIVE Gcd(_, _)
Gcd(a, b) == IF b = 0 THEN a ELSE Gcd(b, a % b)

(* the sum of two ratios, in lowest terms *)
RatioAdd(x, y) ==
    LET n == x[1] * y[2] + y[1] * x[2]
        d == x[2] * y[2]
        g == Gcd(n, d)
    IN  IF n = 0 THEN <<0, 1>> ELSE <<n \div g, d \div g>>

(* the quarter labels of the input, when it has a quarter *)
QuarterLabels ==
    IF reply.input.cols \cap {"date", "quarter", "year_quarter"} = {} THEN {}
    ELSE InputLabels

(* the total registrations of the n-th quarter label in lexical order *)
QuarterTotal(n) ==
    LET Before(l) == {m \in QuarterLabels :
                         m[1] < l[1] \/ (m[1] = l[1] /\ m[2] < l[2])}
        l == CHOOSE x \in QuarterLabels : Cardinality(Before(x)) = n - 1
    IN  SumOver(reply.input.rows,
                {i \in DOMAIN reply.input.rows :
                    <<reply.input.rows[i].year, reply.input.rows[i].quarter>> = l})

(* the changes between the quarter totals from the n-th on: whether one   *)
(* is infinite, the exact sum of the others and their number; a change    *)
(* from 0 to 0 is undefined and left out                                  *)
RECURSIVE ExactChanges(_)
ExactChanges(n) ==
    IF n > Cardinality(QuarterLabels) THEN [inf |-> FALSE, sum |-> <<0, 1>>, count |-> 0]
    ELSE LET rest == ExactChanges(n + 1)
             prev == QuarterTotal(n - 1)
             curr == QuarterTotal(n)
         IN  IF prev = 0
             THEN IF curr = 0 THEN rest
                  ELSE [rest EXCEPT !.inf = TRUE, !.count = @ + 1]
             ELSE [rest EXCEPT
                      !.sum = RatioAdd(@, <<IF curr < prev THEN prev - curr
                                            ELSE curr - prev, prev>>),
                      !.count = @ + 1]

(* the mean of the absolute changes is strictly greater than 20 percent *)
MeanAboveTwenty ==
    LET c == ExactChanges(2)
    IN  \/ c.inf
        \/ c.count > 0 /\ 5 * c.sum[1] > c.count * c.sum[2]

(* C22: when no step fails, generate_insights emits a volatility          *)
(* statement if and only if the input has at least four distinct quarter  *)
(* labels, and then exactly one: 'volatile' when the mean of the absolute *)
(* percent changes between consecutive quarter totals, in lexical order   *)
(* of the label, is strictly greater than 20, and 'stable' otherwise, a   *)
(* mean of exactly 20 included.                                           *)
(* The code computes the mean in binary64: quarter totals 5, 5, 5, 8 give *)
(* 20.000000000000004 and 'volatile'.                                     *)
C22_Volatility ==
    (InsightCall /\ ~EmptyInput /\ ~StepFails) =>
        IF Cardinality(QuarterLabels) >= 4
        THEN /\ Cardinality(Kinds({"volatile", "stable"})) = 1
             /\ Kinds({"volatile"}) # {} <=> MeanAboveTwenty
        ELSE Kinds({"volatile", "stable"}) = {}

----------------------------------------------------------------------------
(* Properties of the metrics store and of stale ledgers *)

(* the metrics store before the latest run *)
MetricsBefore == IF Len(last) = 2 THEN last[2].metrics ELSE EmptyBag

(* C23: every row that a store-backed run without a failure persists in   *)
(* growth_metrics carries a non-null registrations value, the total of    *)
(* the ledger's records of its (manufacturer, category, year, quarter),   *)
(* also when the row has a QoQ value and no YoY value; and the table      *)
(* holds at most one row per key.                                         *)
(* The registrations column comes from the YoY table alone: a row of the  *)
(* outer merge that only the QoQ table has carries a null.                *)
C23_MetricsRegistrations ==
    (/\ last # <<>>
     /\ last[1].backend = "database"
     /\ last[1].clean
     /\ last[1].metrics # MetricsBefore) =>
        \A r \in BagToSet(last[1].metrics) :
            /\ r.registrations = Num(Total(last[1].ledger, Key(r)))
            /\ CopiesIn(r, last[1].metrics) = 1
            /\ \A o \in BagToSet(last[1].metrics) : Key(o) = Key(r) => o = r

(* a growth value g, in hundredths of a percent, attached to the point    *)
(* key is derived from the ledger t: it is missing, or the point's        *)
(* predecessor pred is in t with a total above 0 and g is the percent     *)
(* change between the two totals, to the nearest hundredth                *)
FromLedger(g, t, key, pred) ==
    \/ g \in {Absent, Null}
    \/ /\ g.k = "num"
       /\ HasPoint(t, pred)
       /\ Total(t, pred) > 0
       /\ LET d == g.v * Total(t, pred) - (Total(t, key) - Total(t, pred)) * 10000
          IN  2 * d <= Total(t, pred) /\ -2 * d <= Total(t, pred)

(* C24: in every store-backed run, whatever store operation fails, each   *)
(* yoy_growth and qoq_growth value of the table that process_all_data     *)
(* returns is derived from the ledger loaded in that run, none from the   *)
(* records an earlier load left in the ledger store.                      *)
(* When insert_registration_data fails, the queries read the old records. *)
C24_GrowthOfThisRun ==
    (last # <<>> /\ last[1].backend = "database" /\ ~last[1].processed.none) =>
        \A i \in DOMAIN last[1].processed.rows :
            LET r == last[1].processed.rows[i]
            IN  /\ FromLedger(r.yoy_growth, last[1].ledger, Key(r), YoYPred(Key(r)))
                /\ FromLedger(r.qoq_growth, last[1].ledger, Key(r), QoQPred(Key(r)))

(* C25: when the insert of the new rows raises after the DELETE, in       *)
(* insert_registration_data or in insert_growth_metrics, the call returns *)
(* 0 and the table holds exactly the records it held before the call.     *)
C25_FailedReplaceAll ==
    StoreRun =>
        /\ reply.faults.ins_reg = "insert" =>
            /\ insert_call.called
            /\ insert_call.ret = 0
            /\ vehicle_registrations = reply.before.registrations
        /\ (reply.met.called /\ reply.faults.ins_met = "insert") =>
            /\ reply.met.ret = 0
            /\ growth_metrics = reply.before.metrics

(* C25 witness: the store held seven records and their metrics, the       *)
(* ledger file three other records; both inserts of the run raised after  *)
(* the DELETE, returned 0, and the two tables are as they were.           *)
C25_Witness ==
    /\ StoreRun
    /\ reply.faults.ins_reg = "insert"
    /\ reply.faults.ins_met = "insert"
    /\ reply.met.called
    /\ reply.met.ret = 0
    /\ insert_call.called
    /\ insert_call.ret = 0
    /\ csv = LedgerBoth
    /\ reply.before.registrations = LedgerMetrics
    /\ reply.before.metrics # EmptyBag
    /\ vehicle_registrations = LedgerMetrics
    /\ growth_metrics = reply.before.metrics

====
